---- MODULE Spec2Model ----
(***************************************************************************)
(* Tool-calling orchestration loop of ppxai: the engine client             *)
(* (ppxai/engine/client.py with ppxai/engine/tools/manager.py) and the     *)
(* prompt-based client (perplexity_tools_prompt_based.py with              *)
(* tool_manager.py).  Model text is a sequence of lexemes.                   *)
(***************************************************************************)
EXTENDS Integers, Sequences, FiniteSets, TLC

(***************************************************************************)
(* State                                                                   *)
(***************************************************************************)
VARIABLES
  impl,            \* "engine": EngineClient, "legacy": PerplexityClientPromptTools
  provider,        \* ToolManager._provider / PerplexityClientPromptTools.provider
  tools,           \* ToolManager._tools / ToolManager.tools
  tools_enabled,   \* EngineClient.tools_enabled / enable_tools
  max_iterations,  \* ToolManager.max_iterations / tool_max_iterations
  messages,        \* SessionManager.messages / conversation_history
  pc,              \* where the running turn is; "idle" between turns
  stream,          \* the stream argument of the running turn
  iteration,       \* the loop's local iteration
  turn_max,        \* the loop's local max_iterations
  response,        \* full_response / assistant_message
  tool_call,       \* the parsed call being executed
  events,          \* events yielded (console notices printed) by the turn
  terminal,        \* how the last turn ended
  pre,             \* the transcript when the running turn began
  turns,           \* turns started
  budget,          \* model calls reserved so far
  model_calls,     \* model calls of the turn
  tool_execs,      \* tool executions of the turn
  executed,        \* <<tool, provider>> for every handler ever run
  last_handler,    \* what the handler of the last execution did: "none" when it was not run
  text,            \* parser: the input
  eng_result,      \* parser: EngineClient._parse_tool_call(text)
  leg_result,      \* parser: PerplexityClientPromptTools._parse_tool_call(text)
  re_text,         \* parser: the tool-call message built from a result
  re_result,       \* parser: the result of parsing re_text
  phase,           \* parser: "input", "parsed", "engine_again", "legacy_again"
  sent,            \* the message list of the model call in flight, <<>> when there is none
  ran_on,          \* where the last handler ran: "loop" (the event loop), "executor", "none"
  reg_log,         \* registry: the operations applied to the ToolManager, in order
  caps,            \* config.PROVIDERS[p]["capabilities"]: the native capabilities declared for p
  reqs,            \* server: the state of each /chat request on the one engine
  owner,           \* server: for every message of the session, the request that appended it
  rpc_pc,          \* rpc: "reading", "eof", or "stopped" when an exception left run()
  rpc_read,        \* rpc: the number of input lines read
  rpc_line,        \* rpc: the line read last
  rpc_out          \* rpc: what was printed for the line read last

regVars == <<provider, tools, tools_enabled, max_iterations>>
turnVars == <<messages, pc, stream, iteration, turn_max, response, tool_call,
              events, terminal, pre, turns, budget, model_calls, tool_execs, executed,
              last_handler>>
parseVars == <<text, eng_result, leg_result, re_text, re_result, phase>>
auxVars == <<sent, ran_on, reg_log, caps>>
srvVars == <<reqs, owner>>
rpcVars == <<rpc_pc, rpc_read, rpc_line, rpc_out>>
extVars == <<srvVars, rpcVars>>
vars == <<impl, regVars, turnVars, parseVars, auxVars, extVars>>


(***************************************************************************)
(* Lexemes                                                                 *)
(***************************************************************************)
LB == "{"
RB == "}"
LS == "["
RS == "]"
COLON == ":"
COMMA == ","
WS == " "
\* <fence> stands for the three backquotes of a code fence
FENCE == "<fence>"
FENCEJ == "<fence>json"
PROSE == "Sure"

Q(s) == "\"" \o s \o "\""

\* contents of the string literals that occur in model text
StrLits ==
  {"tool", "arguments", "calculator", "web_search", "nonexistent_tool",
   "expression", "query", "bogus", "2+2", "a}b", "} <fence>",
   "id", "method", "params", "stream", "message", "chat", "get_status",
   "no_such_method"}

\* bare scalar literals (a number and null)
NumLits == {"1", "null"}

IsStr(tok) == \E s \in StrLits : tok = Q(s)
StrOf(tok) == CHOOSE s \in StrLits : tok = Q(s)
IsFence(tok) == tok \in {FENCE, FENCEJ}

\* number of '{' and '}' characters in a lexeme
Opens(tok) == IF tok = LB THEN 1 ELSE 0
Closes(tok) == IF tok \in {RB, Q("a}b"), Q("} <fence>")} THEN 1 ELSE 0
\* the lexeme holds a '}' followed by optional blanks and a code fence
ClosesBeforeFence(tok) == tok = Q("} <fence>")

(***************************************************************************)
(* JSON values as json.loads builds them.  Every value has the same three  *)
(* fields; an object's items are its key/value pairs in insertion order.   *)
(***************************************************************************)
JStr(s) == [t |-> "str", s |-> s, items |-> <<>>]
JNum(s) == [t |-> "num", s |-> s, items |-> <<>>]
JList(vs) == [t |-> "list", s |-> "", items |-> [i \in 1..Len(vs) |-> [k |-> "", v |-> vs[i]]]]
JObj(kvs) == [t |-> "obj", s |-> "", items |-> kvs]
KV(k, v) == [k |-> k, v |-> v]
NullVal == [t |-> "none", s |-> "", items |-> <<>>]

HasKey(obj, k) == \E i \in 1..Len(obj.items) : obj.items[i].k = k
Get(obj, k) == obj.items[CHOOSE i \in 1..Len(obj.items) : obj.items[i].k = k].v
KeysOf(obj) == {obj.items[i].k : i \in 1..Len(obj.items)}

\* d[k] = v on a dict: an existing key keeps its position
DictSet(items, k, v) ==
  IF \E i \in 1..Len(items) : items[i].k = k
  THEN [i \in 1..Len(items) |-> IF items[i].k = k THEN KV(k, v) ELSE items[i]]
  ELSE Append(items, KV(k, v))

(***************************************************************************)
(* json.loads                                                              *)
(***************************************************************************)
RECURSIVE SkipWs(_, _)
SkipWs(toks, i) ==
  IF i <= Len(toks) /\ toks[i] = WS THEN SkipWs(toks, i + 1) ELSE i

DFail == [ok |-> FALSE, val |-> NullVal, next |-> 0]
DOk(v, n) == [ok |-> TRUE, val |-> v, next |-> n]

RECURSIVE DecodeValue(_, _)
RECURSIVE DecodeMembers(_, _, _)
RECURSIVE DecodeElements(_, _, _)

\* after '{' or ',' : a "key" : value pair, then ',' or '}'
DecodeMembers(toks, i, acc) ==
  LET a == SkipWs(toks, i) IN
  IF a > Len(toks) \/ ~IsStr(toks[a]) THEN DFail
  ELSE LET b == SkipWs(toks, a + 1) IN
    IF b > Len(toks) \/ toks[b] # COLON THEN DFail
    ELSE LET r == DecodeValue(toks, SkipWs(toks, b + 1)) IN
      IF ~r.ok THEN DFail
      ELSE LET c == SkipWs(toks, r.next)
               acc2 == DictSet(acc, StrOf(toks[a]), r.val) IN
        IF c > Len(toks) THEN DFail
        ELSE IF toks[c] = RB THEN DOk(JObj(acc2), c + 1)
        ELSE IF toks[c] = COMMA THEN DecodeMembers(toks, c + 1, acc2)
        ELSE DFail

\* after '[' or ',' : a value, then ',' or ']'
DecodeElements(toks, i, acc) ==
  LET r == DecodeValue(toks, SkipWs(toks, i)) IN
  IF ~r.ok THEN DFail
  ELSE LET c == SkipWs(toks, r.next)
           acc2 == Append(acc, r.val) IN
    IF c > Len(toks) THEN DFail
    ELSE IF toks[c] = RS THEN DOk(JList(acc2), c + 1)
    ELSE IF toks[c] = COMMA THEN DecodeElements(toks, c + 1, acc2)
    ELSE DFail

DecodeValue(toks, i) ==
  IF i > Len(toks) THEN DFail
  ELSE IF IsStr(toks[i]) THEN DOk(JStr(StrOf(toks[i])), i + 1)
  ELSE IF toks[i] \in NumLits THEN DOk(JNum(toks[i]), i + 1)
  ELSE IF toks[i] = LB THEN
    LET a == SkipWs(toks, i + 1) IN
    IF a <= Len(toks) /\ toks[a] = RB THEN DOk(JObj(<<>>), a + 1)
    ELSE DecodeMembers(toks, i + 1, <<>>)
  ELSE IF toks[i] = LS THEN
    LET a == SkipWs(toks, i + 1) IN
    IF a <= Len(toks) /\ toks[a] = RS THEN DOk(JList(<<>>), a + 1)
    ELSE DecodeElements(toks, i + 1, <<>>)
  ELSE DFail

\* json.loads(text): one value, blanks around it, nothing else
JsonLoads(toks) ==
  LET r == DecodeValue(toks, SkipWs(toks, 1)) IN
  IF r.ok /\ SkipWs(toks, r.next) > Len(toks) THEN r ELSE DFail

(***************************************************************************)
(* json.dumps                                                              *)
(***************************************************************************)
RECURSIVE DumpsValue(_, _)
RECURSIVE DumpsItems(_, _, _)

\* the items of an object or a list, one per line when indent is set
DumpsItems(val, i, indent) ==
  IF i > Len(val.items) THEN <<>>
  ELSE (IF indent THEN <<WS>> ELSE <<>>)
       \o (IF val.t = "obj" THEN <<Q(val.items[i].k), COLON, WS>> ELSE <<>>)
       \o DumpsValue(val.items[i].v, indent)
       \o (IF i < Len(val.items)
           THEN (IF indent THEN <<COMMA>> ELSE <<COMMA, WS>>)
           ELSE (IF indent THEN <<WS>> ELSE <<>>))
       \o DumpsItems(val, i + 1, indent)

DumpsValue(val, indent) ==
  IF val.t = "str" THEN <<Q(val.s)>>
  ELSE IF val.t = "num" THEN <<val.s>>
  ELSE IF val.t = "obj" THEN <<LB>> \o DumpsItems(val, 1, indent) \o <<RB>>
  ELSE <<LS>> \o DumpsItems(val, 1, indent) \o <<RS>>

\* json.dumps(obj) and json.dumps(obj, indent=2)
JsonDumps(val) == DumpsValue(val, FALSE)
JsonDumpsIndent(val) == DumpsValue(val, TRUE)

(***************************************************************************)
(* Tool descriptors and the two registries                                 *)
(***************************************************************************)
\* Optional[List[str]]: None, or a list of provider names
NoList == [some |-> FALSE, of |-> {}]
ListOf(S) == [some |-> TRUE, of |-> S]

\* ToolManager._provider before set_provider (None): a value that is no str
NoProvider == "<None>"
\* the empty string, which set_provider accepts like any other str
EmptyProvider == ""
Providers == {"perplexity", "openai"}

\* BaseTool.is_available_for
is_available_for(tool, p) ==
  IF tool.provider_specific.some THEN p \in tool.provider_specific.of
  ELSE IF tool.provider_excluded.some THEN p \notin tool.provider_excluded.of
  ELSE TRUE

\* get_tool without the availability test
get_tool_registered(reg, p, name) == name \in DOMAIN reg

\* ToolManager.get_tool for a string name: is a tool returned
get_tool(reg, p, name) ==
  /\ name \in DOMAIN reg
  /\ (p \notin {NoProvider, EmptyProvider} => is_available_for(reg[name], p))

\* ToolManager.get_available_tools
get_available_tools(reg, p) ==
  IF p = NoProvider THEN DOMAIN reg
  ELSE {n \in DOMAIN reg : is_available_for(reg[n], p)}

Descriptor(params, spec, excl) ==
  [params |-> params, provider_specific |-> spec, provider_excluded |-> excl]

\* the built-in tools the model registers (calculator.register_tools,
\* web.register_tools); web_search is excluded for perplexity
BuiltinTools ==
  [n \in {"calculator", "web_search"} |->
     IF n = "calculator"
     THEN Descriptor({"expression"}, NoList, NoList)
     ELSE Descriptor({"query", "num_results"}, NoList, ListOf({"perplexity"}))]

\* BUILTIN_PROVIDERS: perplexity declares every web capability; a provider
\* that declares nothing gets DEFAULT_CAPABILITIES
WebCapabilities == {"web_search", "web_fetch", "weather"}
BuiltinCaps == [p \in Providers |-> IF p = "perplexity" THEN WebCapabilities ELSE {}]

\* config.provider_needs_tool
provider_needs_tool(p, category) == category \notin caps[p]

\* PerplexityClientPromptTools._register_builtin_tools: the web tools are
\* registered only when the provider lacks the capability
LegacyTools(p) ==
  [n \in {m \in DOMAIN BuiltinTools :
            m = "web_search" => provider_needs_tool(p, "web_search")} |->
     BuiltinTools[n]]

(***************************************************************************)
(* _parse_tool_call                                                        *)
(***************************************************************************)
\* a parse outcome: a call, None, or an exception leaving the function
PCall(v) == [kind |-> "call", val |-> v]
PNone == [kind |-> "none", val |-> NullVal]
PRaise == [kind |-> "raise", val |-> NullVal]

\* an arguments dict that keeps every top-level key but tool
FlatArgs_all(data, params) == SelectSeq(data.items, LAMBDA kv : kv.k # "tool")

\* the arguments dict built from the top-level keys that are declared
FlatArgs(data, params) ==
  SelectSeq(data.items, LAMBDA kv : kv.k # "tool" /\ kv.k \in params)

\* a dict lookup with an unhashable key (list, dict) raises TypeError
Unhashable(v) == v.t \in {"list", "obj"}

\* normalize_tool_call, known: the names the tool lookup accepts
NormalizeWith(data, reg, known) ==
  IF ~HasKey(data, "tool") THEN PNone
  ELSE LET tool_name == Get(data, "tool") IN
    IF Unhashable(tool_name) THEN PRaise
    ELSE IF ~(tool_name.t = "str" /\ tool_name.s \in known) THEN PNone
    ELSE IF HasKey(data, "arguments") THEN PCall(data)
    ELSE LET arguments == FlatArgs(data, reg[tool_name.s].params) IN
      IF arguments # <<>>
      THEN PCall(JObj(<<KV("tool", tool_name), KV("arguments", JObj(arguments))>>))
      ELSE PNone

\* EngineClient._parse_tool_call.normalize_tool_call
EngineNormalize(data, reg, p) ==
  NormalizeWith(data, reg, {n \in DOMAIN reg : get_tool(reg, p, n)})

\* a normalization that takes every tool name as registered
LegacyNormalize_any(data, reg) ==
  NormalizeWith(data, reg, {"calculator", "web_search", "nonexistent_tool"})

\* PerplexityClientPromptTools._parse_tool_call.normalize_tool_call
LegacyNormalize(data, reg) ==
  NormalizeWith(data, reg, DOMAIN reg)

\* a candidate substring; cut: it ends inside a string literal
Cand(toks, cut) == [toks |-> toks, cut |-> cut]

\* text.strip()
RECURSIVE Strip(_)
Strip(toks) ==
  IF toks = <<>> THEN toks
  ELSE IF Head(toks) = WS THEN Strip(Tail(toks))
  ELSE IF toks[Len(toks)] = WS THEN Strip(SubSeq(toks, 1, Len(toks) - 1))
  ELSE toks

\* the stripped text when it starts with '{' and ends with '}'
WholeCands(txt) ==
  LET st == Strip(txt) IN
  IF st # <<>> /\ Head(st) = LB /\ st[Len(st)] = RB
  THEN <<Cand(st, FALSE)>> ELSE <<>>

\* can the lazy group of the code-block pattern end at lexeme e
FenceEndAt(toks, e) ==
  \/ ClosesBeforeFence(toks[e])
  \/ /\ toks[e] = RB
     /\ LET f == SkipWs(toks, e + 1) IN f <= Len(toks) /\ IsFence(toks[f])

\* re.findall(r'```(?:json)?\s*(\{[\s\S]*?\})\s*```', text)
RECURSIVE FencedCands(_, _)
FencedCands(toks, i) ==
  IF i > Len(toks) THEN <<>>
  ELSE LET j == SkipWs(toks, i + 1) IN
    IF IsFence(toks[i]) /\ j <= Len(toks) /\ toks[j] = LB
       /\ \E e \in j + 1..Len(toks) : FenceEndAt(toks, e)
    THEN LET e == CHOOSE x \in j + 1..Len(toks) :
                    /\ FenceEndAt(toks, x)
                    /\ \A y \in j + 1..x - 1 : ~FenceEndAt(toks, y)
             resume == IF toks[e] = RB THEN SkipWs(toks, e + 1) + 1 ELSE e + 1
         IN <<Cand(SubSeq(toks, j, e), toks[e] # RB)>> \o FencedCands(toks, resume)
    ELSE FencedCands(toks, i + 1)

\* brace depth after the lexemes from..upto
RECURSIVE Depth(_, _, _)
Depth(toks, from, upto) ==
  IF upto < from THEN 0
  ELSE Depth(toks, from, upto - 1) + Opens(toks[upto]) - Closes(toks[upto])

\* the brace-depth scan from each '{"tool"'
RECURSIVE ScanCands(_, _)
ScanCands(toks, i) ==
  IF i >= Len(toks) THEN <<>>
  ELSE IF toks[i] = LB /\ toks[i + 1] = Q("tool") THEN
    IF \E e \in i..Len(toks) : Depth(toks, i, e) = 0
    THEN LET e == CHOOSE x \in i..Len(toks) :
                    /\ Depth(toks, i, x) = 0
                    /\ \A y \in i..x - 1 : Depth(toks, i, y) # 0
         IN <<Cand(SubSeq(toks, i, e), toks[e] # RB)>> \o ScanCands(toks, e + 1)
    ELSE ScanCands(toks, i + 1)
  ELSE ScanCands(toks, i + 1)

\* re.findall(r'\{\s*"tool"\s*:\s*"[^"]+"\s*[^}]*\}', text)
RECURSIVE RawCands(_, _)
RawCands(toks, i) ==
  IF i > Len(toks) THEN <<>>
  ELSE LET a == SkipWs(toks, i + 1)
           b == SkipWs(toks, a + 1)
           c == SkipWs(toks, b + 1) IN
    IF /\ toks[i] = LB
       /\ c <= Len(toks)
       /\ toks[a] = Q("tool") /\ toks[b] = COLON /\ IsStr(toks[c])
       /\ \E e \in c + 1..Len(toks) : Closes(toks[e]) > 0
    THEN LET e == CHOOSE x \in c + 1..Len(toks) :
                    /\ Closes(toks[x]) > 0
                    /\ \A y \in c + 1..x - 1 : Closes(toks[y]) = 0
         IN <<Cand(SubSeq(toks, i, e), toks[e] # RB)>> \o RawCands(toks, e + 1)
    ELSE RawCands(toks, i + 1)

\* json.loads on a candidate: a decode error, or a value that is no dict,
\* rejects the candidate
Decoded(cand) ==
  IF cand.cut THEN DFail
  ELSE LET r == JsonLoads(cand.toks) IN
    IF r.ok /\ r.val.t = "obj" THEN r ELSE DFail

\* json.loads, then normalize_tool_call, in EngineClient._parse_tool_call
EngineTry(cand, reg, p) ==
  LET r == Decoded(cand) IN IF r.ok THEN EngineNormalize(r.val, reg, p) ELSE PNone

\* the same in PerplexityClientPromptTools._parse_tool_call
LegacyTry(cand, reg) ==
  LET r == Decoded(cand) IN IF r.ok THEN LegacyNormalize(r.val, reg) ELSE PNone

\* the first candidate that is not rejected decides; out: the outcome of
\* each candidate in the order they are tried
FirstOutcome(out) ==
  IF \A i \in 1..Len(out) : out[i].kind = "none" THEN PNone
  ELSE out[CHOOSE i \in 1..Len(out) :
             /\ out[i].kind # "none"
             /\ \A j \in 1..i - 1 : out[j].kind = "none"]

\* the candidates in the order EngineClient._parse_tool_call tries them
EngineCandidates(txt) ==
  WholeCands(txt) \o FencedCands(txt, 1) \o ScanCands(txt, 1)

\* the order of PerplexityClientPromptTools._parse_tool_call
LegacyCandidates(txt) ==
  FencedCands(txt, 1) \o RawCands(txt, 1) \o WholeCands(txt)

\* EngineClient._parse_tool_call
EngineParse(txt, reg, p) ==
  LET cands == EngineCandidates(txt) IN
  FirstOutcome([i \in 1..Len(cands) |-> EngineTry(cands[i], reg, p)])

\* PerplexityClientPromptTools._parse_tool_call
LegacyParse(txt, reg) ==
  LET cands == LegacyCandidates(txt) IN
  FirstOutcome([i \in 1..Len(cands) |-> LegacyTry(cands[i], reg)])

(***************************************************************************)
(* Bounds                                                                  *)
(***************************************************************************)
\* turns started on one session
MaxTurns == 2
\* a turn starts only with max_iterations at most this
MaxIterBound == 2
\* model calls a session may reserve (Reserve for each turn)
MaxCalls == 3

\* ToolManager.max_iterations / tool_max_iterations after construction
DefaultMaxIterations == 15
\* the range '/tools config max_iterations' accepts
MinIterations == 1
MaxIterations == 50
\* values a caller passes as max_iterations
ConfigValues == {-1, 1, 2, 51}

(***************************************************************************)
(* Model responses of the orchestration loop                               *)
(***************************************************************************)
CalcArgs == JObj(<<KV("expression", JStr("2+2"))>>)
StdCall == JObj(<<KV("tool", JStr("calculator")), KV("arguments", CalcArgs)>>)
FlatCall == JObj(<<KV("tool", JStr("calculator")), KV("expression", JStr("2+2")),
                   KV("bogus", JNum("1"))>>)
SearchCall == JObj(<<KV("tool", JStr("web_search")),
                     KV("arguments", JObj(<<KV("query", JStr("2+2"))>>))>>)
UnknownCall == JObj(<<KV("tool", JStr("nonexistent_tool")), KV("arguments", CalcArgs)>>)
NoToolKey == JObj(<<KV("expression", JStr("2+2"))>>)
ListTool == JObj(<<KV("tool", JList(<<>>))>>)
NestedCall == JObj(<<KV("bogus", JObj(<<KV("tool", JStr("calculator")),
                                         KV("expression", JStr("2+2"))>>))>>)
StrArgsCall == JObj(<<KV("tool", JStr("calculator")), KV("arguments", JStr("2+2"))>>)

Fenced(toks) == <<FENCEJ, WS>> \o toks \o <<WS, FENCE>>

\* a response that holds two valid tool calls, each in a code block
TwoCalls == Fenced(JsonDumps(StdCall)) \o <<WS>> \o Fenced(JsonDumps(SearchCall))

Responses ==
  { <<PROSE>>,
    TwoCalls,
    Fenced(JsonDumps(StdCall)),
    JsonDumps(FlatCall),
    JsonDumps(SearchCall),
    JsonDumps(UnknownCall),
    JsonDumps(NoToolKey),
    JsonDumps(ListTool),
    JsonDumps(NestedCall),
    JsonDumps(StrArgsCall) }

\* responses to a call whose text is passed on without being parsed
FinalResponses == {<<PROSE>>, Fenced(JsonDumps(StdCall))}

(***************************************************************************)
(* Messages and events                                                     *)
(***************************************************************************)
Msg(role, kind, tool, body) == [role |-> role, kind |-> kind, tool |-> tool, body |-> body]
Ev(type, tool, data) == [type |-> type, tool |-> tool, data |-> data]

UserMsg == Msg("user", "user", "", <<"question">>)
FinalMsg(txt) == Msg("assistant", "final", "", txt)

\* f"[Tool Call: {tool_name}]\n```json\n{json.dumps(tool_call, indent=2)}\n```"
ToolCallText(call) ==
  <<"[Tool Call: " \o Get(call, "tool").s \o "]", WS, FENCEJ, WS>>
    \o JsonDumpsIndent(call) \o <<WS, FENCE>>
ToolCallMsg(call) == Msg("assistant", "tool_call", Get(call, "tool").s, ToolCallText(call))

\* f"[Tool Result for {tool_name}]\n```\n{result}\n```\n\nNow provide ..."
ToolResultMsg(name, result) ==
  Msg("user", "tool_result", name,
      <<"[Tool Result for " \o name \o "]">> \o result
         \o <<"Now provide your final answer based on this result.">>)

\* an error message that holds the text of the exception only
ToolErrorMsg_plain(name, error_msg) == Msg("user", "tool_error", name, error_msg)

\* f"[Tool Error]\n{error_msg}\n\nPlease provide an answer without ..."
ToolErrorMsg(name, error_msg) ==
  Msg("user", "tool_error", name,
      <<"[Tool Error]">> \o error_msg
         \o <<"Please provide an answer without using that tool.">>)

EngineLimitMsg ==
  Msg("assistant", "limit", "",
      <<"[Tool iterations limit reached. Please try again with a simpler query.]">>)
LegacyLimitMsg ==
  Msg("assistant", "limit", "",
      <<"[Tool iterations limit reached. Please try again with a simpler query or increase max_iterations with '/tools config max_iterations <number>'.]">>)

\* pieces of message text that hold the word Error
ErrorTexts ==
  {"[Tool Error]", "Error executing tool: ", "Error executing builtin tool: "}
ContainsError(m) == \E i \in 1..Len(m.body) : m.body[i] \in ErrorTexts

\* inspect.iscoroutinefunction(handler): every built-in handler is a plain def
IsCoroutine(name) == FALSE

\* FunctionTool.execute: a coroutine function is awaited, any other handler
\* is called in place, on the thread of the event loop
FunctionToolRunsOn(is_coroutine) == IF is_coroutine THEN "awaited" ELSE "loop"

\* tool_manager.ToolManager._execute_builtin_tool: loop.run_in_executor
\* for a handler that is no coroutine function
BuiltinToolRunsOn(is_coroutine) == IF is_coroutine THEN "awaited" ELSE "executor"

\* what a handler can do when it is run: return its result, raise, or run
\* into its own timeout, which it reports as a text (execute_shell_command's
\* subprocess.run(timeout=30), _execute_mcp_tool's asyncio.wait_for)
HandlerOutcomes == {"ok", "raise", "timeout"}
OkResult == <<"4">>
HandlerError == <<"division by zero">>
\* "except subprocess.TimeoutExpired: return ..."
TimeoutResult == <<"Error: Command timed out after 30 seconds">>
\* "except asyncio.TimeoutError: return ..."
McpTimeoutResult == <<"Error: Tool execution timed out (30s)">>

(***************************************************************************)
(* The tool prompt and the message list of a model call                    *)
(***************************************************************************)
\* the order in which the tools of the model are registered
ToolOrder == <<"calculator", "get_weather", "web_search", "fetch_url", "custom">>

Section(name) == "### " \o name

\* the text both prompt builders make for a set of tools: "" for no tool,
\* else the header, one section a tool and the fixed instructions
PromptFor(names) ==
  IF names = {} THEN <<>>
  ELSE <<"# IMPORTANT: You Have Access to Tools", "## Available Tools:">>
         \o [i \in 1..Len(SelectSeq(ToolOrder, LAMBDA n : n \in names)) |->
               Section(SelectSeq(ToolOrder, LAMBDA n : n \in names)[i])]
         \o <<"## CRITICAL INSTRUCTIONS:">>

\* a prompt with a section for every registered tool
get_tools_prompt_all(reg, p) == PromptFor(DOMAIN reg)

\* ToolManager.get_tools_prompt
get_tools_prompt(reg, p) == PromptFor(get_available_tools(reg, p))

\* PerplexityClientPromptTools._get_tools_prompt
LegacyToolsPrompt(reg) == PromptFor(DOMAIN reg)

SystemMsg(prompt) == Msg("system", "system", "", prompt)

\* a message list that holds the preamble and the last message only
WithPreamble_last(prompt, history) ==
  (IF prompt # <<>> THEN <<SystemMsg(prompt)>> ELSE <<>>)
    \o (IF history = <<>> THEN <<>> ELSE <<history[Len(history)]>>)

\* "if tool_prompt: messages = [Message("system", tool_prompt)] + messages"
\* and _build_messages_with_tools
WithPreamble(prompt, history) ==
  (IF prompt # <<>> THEN <<SystemMsg(prompt)>> ELSE <<>>) \o history

(***************************************************************************)
(* Initial state                                                           *)
(***************************************************************************)
EmptyReg == [n \in {} |-> Descriptor({}, NoList, NoList)]

ParseOff ==
  /\ text = <<>> /\ eng_result = PNone /\ leg_result = PNone
  /\ re_text = <<>> /\ re_result = PNone /\ phase = "off"

TurnInit ==
  /\ messages = <<>> /\ pc = "idle" /\ stream = FALSE /\ iteration = 0
  /\ turn_max = 0 /\ response = <<>> /\ tool_call = NullVal /\ events = <<>>
  /\ terminal = "NONE" /\ pre = <<>> /\ turns = 0 /\ budget = 0
  /\ model_calls = 0 /\ tool_execs = 0 /\ executed = {} /\ last_handler = "none"

\* EngineClient.__init__ and ToolManager.__init__
EngineInit ==
  /\ impl = "engine"
  /\ provider = NoProvider /\ tools = EmptyReg /\ tools_enabled = FALSE
  /\ max_iterations = DefaultMaxIterations

\* PerplexityClientPromptTools.__init__(enable_tools=True, provider=p)
\* followed by initialize_tools()
LegacyInit ==
  /\ impl = "legacy"
  /\ provider \in Providers /\ tools = LegacyTools(provider) /\ tools_enabled = TRUE
  /\ max_iterations = DefaultMaxIterations

\* no HTTP request and no JSON-RPC server
SrvOff == reqs = <<>> /\ owner = <<>>
NoOutput == [printed |-> <<>>, failed |-> FALSE]
RpcOff == rpc_pc = "off" /\ rpc_read = 0 /\ rpc_line = <<>> /\ rpc_out = NoOutput

AuxInit ==
  /\ sent = <<>> /\ ran_on = "none" /\ reg_log = <<>> /\ caps = BuiltinCaps
  /\ SrvOff /\ RpcOff

Init == AuxInit /\ (EngineInit \/ LegacyInit) /\ TurnInit /\ ParseOff

(***************************************************************************)
(* EngineClient: configuration                                             *)
(***************************************************************************)
\* the session is followed while a turn runs or a further turn can start:
\* a configuration call made after the last turn is not followed
SessionOpen == pc \notin {"idle", "cancelled"} \/ (pc = "idle" /\ turns < MaxTurns)

\* EngineClient.set_provider -> ToolManager.set_provider
SetProvider(p) ==
  /\ impl = "engine" /\ SessionOpen
  /\ provider' = p
  /\ UNCHANGED <<impl, tools, tools_enabled, max_iterations, turnVars, parseVars, auxVars, extVars>>

\* ToolManager.register_tool for every built-in tool
RegisterAll(reg) ==
  [n \in DOMAIN reg \cup DOMAIN BuiltinTools |->
     IF n \in DOMAIN BuiltinTools THEN BuiltinTools[n] ELSE reg[n]]

\* EngineClient.enable_tools
EnableTools ==
  /\ impl = "engine" /\ SessionOpen
  /\ tools' = IF tools_enabled THEN tools ELSE RegisterAll(tools)
  /\ tools_enabled' = TRUE
  /\ UNCHANGED <<impl, provider, max_iterations, turnVars, parseVars, auxVars, extVars>>

\* EngineClient.disable_tools -> ToolManager.clear
DisableTools ==
  /\ impl = "engine" /\ SessionOpen
  /\ tools_enabled' = FALSE
  /\ tools' = EmptyReg
  /\ UNCHANGED <<impl, provider, max_iterations, turnVars, parseVars, auxVars, extVars>>

\* EngineClient.set_tool_config("max_iterations", v); the loop copies the
\* setting when it starts, so a call made during a turn acts as one made
\* right after it, and only the calls between turns are taken
SetToolConfig(v) ==
  /\ impl = "engine" /\ pc = "idle" /\ SessionOpen
  /\ max_iterations' = v
  /\ UNCHANGED <<impl, provider, tools, tools_enabled, turnVars, parseVars, auxVars, extVars>>

\* CommandHandler._tools_config(["max_iterations", v])
ToolsConfig(v) ==
  /\ impl = "legacy" /\ pc = "idle" /\ SessionOpen
  /\ max_iterations' =
       IF v < MinIterations \/ v > MaxIterations THEN max_iterations ELSE v
  /\ UNCHANGED <<impl, provider, tools, tools_enabled, turnVars, parseVars, auxVars, extVars>>

(***************************************************************************)
(* EngineClient.chat                                                       *)
(***************************************************************************)
Max0(n) == IF n < 0 THEN 0 ELSE n

\* the model calls a turn started now can make at most: one an iteration,
\* and for the engine one more (its streaming re-request, or the single call
\* of _chat_simple)
Reserve == Max0(max_iterations) + (IF impl = "engine" THEN 1 ELSE 0)

\* what every turn start sets, besides the transcript
BeginTurn(s, first) ==
  /\ pre' = messages
  /\ stream' = s /\ iteration' = 0 /\ turn_max' = max_iterations
  /\ pc' = first
  /\ events' = <<>> /\ terminal' = "NONE"
  /\ turns' = turns + 1 /\ budget' = budget + Reserve
  /\ model_calls' = 0 /\ tool_execs' = 0 /\ last_handler' = "none"
  /\ response' = <<>> /\ tool_call' = NullVal

CanBegin ==
  /\ pc = "idle" /\ turns < MaxTurns
  /\ max_iterations <= MaxIterBound
  /\ budget + Reserve <= MaxCalls

\* how a turn ends
EndTurn(how) == terminal' = how /\ pc' = "idle"

\* EngineClient.chat up to the first model call
EngineChat(s) ==
  /\ impl = "engine" /\ provider # NoProvider /\ CanBegin
  /\ messages' = Append(messages, UserMsg)
  /\ BeginTurn(s, IF tools_enabled THEN "loop" ELSE "simple")
  /\ sent' = <<>> /\ ran_on' = "none"
  /\ UNCHANGED <<impl, regVars, executed, parseVars, reg_log, caps, extVars>>

\* the registries a client of the loop can hold: built-in tools only
LoopRegistries == {[n \in S |-> BuiltinTools[n]] : S \in SUBSET DOMAIN BuiltinTools}

\* _parse_tool_call applied to a model response, for every registry and
\* provider: the outcomes are computed once and looked up by the actions
EngineParsed ==
  [txt \in Responses |-> [reg \in LoopRegistries |->
     [p \in Providers \cup {NoProvider} |-> EngineParse(txt, reg, p)]]]
LegacyParsed ==
  [txt \in Responses |-> [reg \in LoopRegistries |-> LegacyParse(txt, reg)]]

\* EngineClient.chat without a provider: an ERROR event and nothing else
EngineChatNoProvider ==
  /\ impl = "engine" /\ provider = NoProvider /\ pc = "idle"
  /\ events' = <<Ev("ERROR", "", <<"No provider configured">>)>>
  /\ terminal' = "REJECTED"
  /\ UNCHANGED <<impl, regVars, messages, pc, stream, iteration, turn_max, response,
                 tool_call, pre, turns, budget, model_calls, tool_execs, last_handler, executed,
                 parseVars, auxVars, extVars>>

\* a loop test that lets one more iteration through
LoopTest_inclusive(i, m) == i <= m

\* "while iteration < max_iterations"
LoopTest(i, m) == i < m

\* _chat_with_tools: the while test, iteration += 1 and full_response = "",
\* or the limit message
EngineLoop ==
  /\ impl = "engine" /\ pc = "loop"
  /\ IF LoopTest(iteration, turn_max)
     THEN /\ iteration' = iteration + 1
          /\ response' = <<>>
          /\ sent' = WithPreamble(get_tools_prompt(tools, provider), messages)
          /\ pc' = "model"
          /\ UNCHANGED <<messages, events, terminal>>
     ELSE /\ events' = Append(events, Ev("INFO", "", <<"Maximum tool iterations reached">>))
          /\ messages' = Append(messages, EngineLimitMsg)
          /\ EndTurn("BUDGET_EXCEEDED")
          /\ UNCHANGED <<iteration, response, sent>>
  /\ UNCHANGED <<impl, regVars, stream, turn_max, tool_call, pre, turns,
                 budget, model_calls, tool_execs, last_handler, executed, parseVars,
                 ran_on, reg_log, caps, extVars>>

\* _chat_with_tools: provider.chat(stream=False) answers, _parse_tool_call
EngineModelRespond(txt) ==
  /\ impl = "engine" /\ pc = "model"
  /\ model_calls' = model_calls + 1
  /\ response' = txt
  /\ LET o == EngineParsed[txt][tools][provider] IN
     IF o.kind = "raise"
     THEN /\ EndTurn("RAISED")
          /\ UNCHANGED <<messages, events, tool_call>>
     ELSE IF o.kind = "call"
     THEN /\ tool_call' = o.val
          /\ events' = Append(events, Ev("TOOL_CALL", Get(o.val, "tool").s, <<>>))
          /\ pc' = "exec"
          /\ UNCHANGED <<messages, terminal>>
     ELSE IF stream
     THEN /\ pc' = "restream"
          /\ UNCHANGED <<messages, events, terminal, tool_call>>
     ELSE /\ messages' = Append(messages, FinalMsg(txt))
          /\ events' = Append(events, Ev("STREAM_END", "", txt))
          /\ EndTurn("DONE")
          /\ UNCHANGED tool_call
  /\ sent' = IF pc' = "restream" THEN sent ELSE <<>>
  /\ UNCHANGED <<impl, regVars, stream, iteration, turn_max, pre, turns, budget,
                 tool_execs, last_handler, executed, parseVars,
                 ran_on, reg_log, caps, extVars>>

\* _chat_with_tools: provider.chat yields ERROR
EngineModelFail ==
  /\ impl = "engine" /\ pc = "model"
  /\ model_calls' = model_calls + 1
  /\ events' = Append(events, Ev("ERROR", "", <<"transport">>))
  /\ EndTurn("FATAL_ERROR")
  /\ sent' = <<>>
  /\ UNCHANGED <<impl, regVars, messages, stream, iteration, turn_max, response,
                 tool_call, pre, turns, budget, tool_execs, last_handler, executed, parseVars,
                 ran_on, reg_log, caps, extVars>>

\* what "await self.tool_manager.execute_tool(tool_name, **tool_args)" does:
\* ** on a non-dict raises, ToolManager.execute_tool raises for a tool that
\* get_tool does not return, else the handler runs with outcome h
EngineExecOutcome_stale(h) ==
  LET args == Get(tool_call, "arguments") IN
  IF args.t # "obj"
  THEN [ran |-> FALSE, ok |-> FALSE, out |-> <<"argument after ** must be a mapping">>]
  ELSE IF h = "ok" THEN [ran |-> TRUE, ok |-> TRUE, out |-> OkResult]
  ELSE IF h = "timeout" THEN [ran |-> TRUE, ok |-> TRUE, out |-> TimeoutResult]
  ELSE [ran |-> TRUE, ok |-> FALSE, out |-> HandlerError]

EngineExecOutcome(h) ==
  LET name == Get(tool_call, "tool").s
      args == Get(tool_call, "arguments") IN
  IF args.t # "obj"
  THEN [ran |-> FALSE, ok |-> FALSE, out |-> <<"argument after ** must be a mapping">>]
  ELSE IF ~get_tool(tools, provider, name)
  THEN [ran |-> FALSE, ok |-> FALSE, out |-> <<"Tool not found or not available: " \o name>>]
  ELSE IF h = "ok" THEN [ran |-> TRUE, ok |-> TRUE, out |-> OkResult]
  ELSE IF h = "timeout" THEN [ran |-> TRUE, ok |-> TRUE, out |-> TimeoutResult]
  ELSE [ran |-> TRUE, ok |-> FALSE, out |-> HandlerError]

\* _chat_with_tools: the try/except around execute_tool
EngineExecute(h) ==
  /\ impl = "engine" /\ pc = "exec"
  /\ LET name == Get(tool_call, "tool").s
         r == EngineExecOutcome(h) IN
     /\ executed' = IF r.ran THEN executed \cup {<<name, provider>>} ELSE executed
     /\ IF r.ok
        THEN /\ events' = Append(events, Ev("TOOL_RESULT", name, r.out))
             /\ messages' = messages \o <<ToolCallMsg(tool_call), ToolResultMsg(name, r.out)>>
        ELSE /\ events' = Append(events, Ev("TOOL_ERROR", name, r.out))
             /\ messages' = messages \o <<ToolCallMsg(tool_call), ToolErrorMsg(name, r.out)>>
  /\ last_handler' = IF ~EngineExecOutcome(h).ran THEN "none" ELSE h
  /\ ran_on' = IF ~EngineExecOutcome(h).ran THEN ran_on
               ELSE FunctionToolRunsOn(IsCoroutine(Get(tool_call, "tool").s))
  /\ tool_execs' = tool_execs + 1
  /\ pc' = "loop"
  /\ UNCHANGED <<impl, regVars, stream, iteration, turn_max, response, tool_call,
                 terminal, pre, turns, budget, model_calls, parseVars,
                 sent, reg_log, caps, extVars>>

\* _chat_with_tools: the re-request with stream=True, all events forwarded
EngineRestreamRespond(txt) ==
  /\ impl = "engine" /\ pc = "restream"
  /\ model_calls' = model_calls + 1
  /\ events' = events \o <<Ev("STREAM_START", "", <<>>), Ev("STREAM_END", "", txt)>>
  /\ messages' = Append(messages, FinalMsg(txt))
  /\ EndTurn("DONE")
  /\ sent' = <<>>
  /\ UNCHANGED <<impl, regVars, stream, iteration, turn_max, response, tool_call,
                 pre, turns, budget, tool_execs, last_handler, executed, parseVars,
                 ran_on, reg_log, caps, extVars>>

EngineRestreamFail ==
  /\ impl = "engine" /\ pc = "restream"
  /\ model_calls' = model_calls + 1
  /\ events' = events \o <<Ev("STREAM_START", "", <<>>), Ev("ERROR", "", <<"transport">>)>>
  /\ EndTurn("FATAL_ERROR")
  /\ sent' = <<>>
  /\ UNCHANGED <<impl, regVars, messages, stream, iteration, turn_max, response,
                 tool_call, pre, turns, budget, tool_execs, last_handler, executed, parseVars,
                 ran_on, reg_log, caps, extVars>>

\* _chat_simple: events forwarded, STREAM_END appended
EngineSimpleRespond(txt) ==
  /\ impl = "engine" /\ pc = "simple"
  /\ model_calls' = model_calls + 1
  /\ response' = txt
  /\ events' = events \o <<Ev("STREAM_START", "", <<>>), Ev("STREAM_END", "", txt)>>
  /\ messages' = Append(messages, FinalMsg(txt))
  /\ EndTurn("DONE")
  /\ UNCHANGED <<impl, regVars, stream, iteration, turn_max, tool_call,
                 pre, turns, budget, tool_execs, last_handler, executed, parseVars, auxVars, extVars>>

EngineSimpleFail ==
  /\ impl = "engine" /\ pc = "simple"
  /\ model_calls' = model_calls + 1
  /\ events' = events \o <<Ev("STREAM_START", "", <<>>), Ev("ERROR", "", <<"transport">>)>>
  /\ EndTurn("FATAL_ERROR")
  /\ UNCHANGED <<impl, regVars, messages, stream, iteration, turn_max, response,
                 tool_call, pre, turns, budget, tool_execs, last_handler, executed, parseVars, auxVars, extVars>>

(***************************************************************************)
(* PerplexityClientPromptTools.chat_with_tools                             *)
(***************************************************************************)
\* chat_with_tools up to the loop: the user message is appended
LegacyChat ==
  /\ impl = "legacy" /\ CanBegin
  /\ messages' = Append(messages, UserMsg)
  /\ BeginTurn(FALSE, "loop")
  /\ sent' = <<>> /\ ran_on' = "none"
  /\ UNCHANGED <<impl, regVars, executed, parseVars, reg_log, caps, extVars>>

\* the "except Exception" around the loop body: the last message is popped
\* when it is a user message
PopIfUser_two(h) ==
  IF h # <<>> /\ h[Len(h)].role = "user" THEN SubSeq(h, 1, Len(h) - 2) ELSE h

PopIfUser(h) ==
  IF h # <<>> /\ h[Len(h)].role = "user" THEN SubSeq(h, 1, Len(h) - 1) ELSE h

\* the while test, iteration += 1, or the warning and the limit message
LegacyLoop ==
  /\ impl = "legacy" /\ pc = "loop"
  /\ IF LoopTest(iteration, turn_max)
     THEN /\ iteration' = iteration + 1
          /\ sent' = WithPreamble(LegacyToolsPrompt(tools), messages)
          /\ pc' = "model"
          /\ UNCHANGED <<messages, events, terminal>>
     ELSE /\ events' = Append(events, Ev("CONSOLE_WARNING", "", <<"Maximum tool iterations reached">>))
          /\ messages' = IF messages # <<>> /\ messages[Len(messages)].role = "user"
                         THEN Append(messages, LegacyLimitMsg) ELSE messages
          /\ EndTurn("BUDGET_EXCEEDED")
          /\ UNCHANGED <<iteration, sent>>
  /\ UNCHANGED <<impl, regVars, stream, turn_max, response, tool_call, pre, turns,
                 budget, model_calls, tool_execs, last_handler, executed, parseVars,
                 ran_on, reg_log, caps, extVars>>

\* the API call answers, _parse_tool_call; an exception of the parser is
\* caught by the same handler as a failed API call
LegacyModelRespond(txt) ==
  /\ impl = "legacy" /\ pc = "model"
  /\ model_calls' = model_calls + 1
  /\ response' = txt
  /\ LET o == LegacyParsed[txt][tools] IN
     IF o.kind = "raise"
     THEN /\ events' = Append(events, Ev("CONSOLE_ERROR", "", <<"unhashable type">>))
          /\ messages' = PopIfUser(messages)
          /\ EndTurn("FATAL_ERROR")
          /\ UNCHANGED tool_call
     ELSE IF o.kind = "call"
     THEN /\ tool_call' = o.val
          /\ events' = Append(events, Ev("CONSOLE_CALLING_TOOL", Get(o.val, "tool").s, <<>>))
          /\ pc' = "exec"
          /\ UNCHANGED <<messages, terminal>>
     ELSE /\ events' = Append(events, Ev("CONSOLE_ASSISTANT", "", txt))
          /\ messages' = Append(messages, FinalMsg(txt))
          /\ EndTurn("DONE")
          /\ UNCHANGED tool_call
  /\ sent' = <<>>
  /\ UNCHANGED <<impl, regVars, stream, iteration, turn_max, pre, turns, budget,
                 tool_execs, last_handler, executed, parseVars,
                 ran_on, reg_log, caps, extVars>>

\* the API call raises
LegacyModelFail ==
  /\ impl = "legacy" /\ pc = "model"
  /\ model_calls' = model_calls + 1
  /\ events' = Append(events, Ev("CONSOLE_ERROR", "", <<"transport">>))
  /\ messages' = PopIfUser(messages)
  /\ EndTurn("FATAL_ERROR")
  /\ sent' = <<>>
  /\ UNCHANGED <<impl, regVars, stream, iteration, turn_max, response,
                 tool_call, pre, turns, budget, tool_execs, last_handler, executed, parseVars,
                 ran_on, reg_log, caps, extVars>>

\* tool_manager.ToolManager.execute_tool for a built-in tool:
\* an unknown name raises ValueError; _execute_builtin_tool turns
\* an exception of the handler (or of handler(**arguments)) into text
LegacyExecOutcome_surfacing(h) ==
  LET name == Get(tool_call, "tool").s
      args == Get(tool_call, "arguments") IN
  IF name \notin DOMAIN tools
  THEN [ran |-> FALSE, ok |-> FALSE, out |-> <<"Error executing tool: ", "Unknown tool: " \o name>>]
  ELSE IF args.t # "obj"
  THEN [ran |-> FALSE, ok |-> TRUE,
        out |-> <<"Error executing builtin tool: ", "argument after ** must be a mapping">>]
  ELSE IF h = "ok" THEN [ran |-> TRUE, ok |-> TRUE, out |-> OkResult]
  ELSE IF h = "timeout" THEN [ran |-> TRUE, ok |-> FALSE, out |-> <<"Error executing tool: ">>]
  ELSE [ran |-> TRUE, ok |-> TRUE, out |-> <<"Error executing builtin tool: ">> \o HandlerError]

LegacyExecOutcome(h) ==
  LET name == Get(tool_call, "tool").s
      args == Get(tool_call, "arguments") IN
  IF name \notin DOMAIN tools
  THEN [ran |-> FALSE, ok |-> FALSE, out |-> <<"Error executing tool: ", "Unknown tool: " \o name>>]
  ELSE IF args.t # "obj"
  THEN [ran |-> FALSE, ok |-> TRUE,
        out |-> <<"Error executing builtin tool: ", "argument after ** must be a mapping">>]
  ELSE IF h = "ok" THEN [ran |-> TRUE, ok |-> TRUE, out |-> OkResult]
  ELSE IF h = "timeout" THEN [ran |-> TRUE, ok |-> TRUE, out |-> McpTimeoutResult]
  ELSE [ran |-> TRUE, ok |-> TRUE, out |-> <<"Error executing builtin tool: ">> \o HandlerError]

\* the inner try/except around execute_tool
LegacyExecute(h) ==
  /\ impl = "legacy" /\ pc = "exec"
  /\ LET name == Get(tool_call, "tool").s
         r == LegacyExecOutcome(h) IN
     /\ executed' = IF r.ran THEN executed \cup {<<name, provider>>} ELSE executed
     /\ IF r.ok
        THEN /\ events' = Append(events, Ev("CONSOLE_TOOL_RESULT", name, r.out))
             /\ messages' = messages \o <<ToolCallMsg(tool_call), ToolResultMsg(name, r.out)>>
        ELSE /\ events' = Append(events, Ev("CONSOLE_TOOL_ERROR", name, r.out))
             /\ messages' = messages \o <<ToolCallMsg(tool_call), ToolErrorMsg(name, r.out)>>
  /\ last_handler' = IF ~LegacyExecOutcome(h).ran THEN "none" ELSE h
  /\ ran_on' = IF ~LegacyExecOutcome(h).ran THEN ran_on
               ELSE BuiltinToolRunsOn(IsCoroutine(Get(tool_call, "tool").s))
  /\ tool_execs' = tool_execs + 1
  /\ pc' = "loop"
  /\ UNCHANGED <<impl, regVars, stream, iteration, turn_max, response, tool_call,
                 terminal, pre, turns, budget, model_calls, parseVars,
                 sent, reg_log, caps, extVars>>

(***************************************************************************)
(* Cancellation: the task running the turn is cancelled at an await, or    *)
(* the consumer of the event generator closes it at a yield                *)
(***************************************************************************)
\* the places where a running turn is suspended: the engine awaits the
\* provider and the tool and yields events; the prompt-based client awaits
\* the tool only, its API call is a plain call
SuspendedAt ==
  IF impl = "engine" THEN {"model", "exec", "restream", "simple"} ELSE {"exec"}

\* how a cancelled turn ends; the session is followed no further
Cancelled == terminal' = "CANCELLED" /\ pc' = "cancelled"

\* CancelledError or GeneratorExit raised at the suspension point: neither
\* is an Exception, so no except clause of the loop runs and the frame is
\* left with the transcript as it is
CancelTurn ==
  /\ impl \in {"engine", "legacy"} /\ pc \in SuspendedAt
  /\ Cancelled
  /\ UNCHANGED <<impl, regVars, messages, stream, iteration, turn_max, response,
                 tool_call, events, pre, turns, budget, model_calls, tool_execs,
                 last_handler, executed, parseVars, auxVars, extVars>>

\* a transcript that gets the tool-call message before the generator is left
AbandonedAppend_call(history, call) == Append(history, ToolCallMsg(call))

\* the generator is closed at "yield Event(TOOL_RESULT ...)" or at
\* "yield Event(TOOL_ERROR ...)": both add_message calls come after the yield
AbandonedAppend(history, call) == history

\* _chat_with_tools: the tool is executed, the event is yielded and the
\* consumer closes the generator there
EngineExecuteAbandoned(h) ==
  /\ impl = "engine" /\ pc = "exec"
  /\ LET name == Get(tool_call, "tool").s
         r == EngineExecOutcome(h) IN
     /\ executed' = IF r.ran THEN executed \cup {<<name, provider>>} ELSE executed
     /\ events' = Append(events, Ev(IF r.ok THEN "TOOL_RESULT" ELSE "TOOL_ERROR", name, r.out))
     /\ last_handler' = IF ~r.ran THEN "none" ELSE h
     /\ ran_on' = IF ~r.ran THEN ran_on ELSE FunctionToolRunsOn(IsCoroutine(name))
  /\ messages' = AbandonedAppend(messages, tool_call)
  /\ tool_execs' = tool_execs + 1
  /\ Cancelled
  /\ UNCHANGED <<impl, regVars, stream, iteration, turn_max, response, tool_call,
                 pre, turns, budget, model_calls, parseVars, sent, reg_log, caps, extVars>>

(***************************************************************************)
(* Specification of the orchestration loop                                 *)
(***************************************************************************)
Next ==
  \/ \E p \in Providers : SetProvider(p)
  \/ EnableTools
  \/ DisableTools
  \/ \E v \in ConfigValues : SetToolConfig(v)
  \/ \E v \in ConfigValues : ToolsConfig(v)
  \/ \E s \in BOOLEAN : EngineChat(s)
  \/ EngineChatNoProvider
  \/ EngineLoop
  \/ \E txt \in Responses : EngineModelRespond(txt)
  \/ EngineModelFail
  \/ \E h \in HandlerOutcomes : EngineExecute(h)
  \/ \E txt \in FinalResponses : EngineRestreamRespond(txt)
  \/ EngineRestreamFail
  \/ \E txt \in FinalResponses : EngineSimpleRespond(txt)
  \/ EngineSimpleFail
  \/ LegacyChat
  \/ LegacyLoop
  \/ \E txt \in Responses : LegacyModelRespond(txt)
  \/ LegacyModelFail
  \/ \E h \in HandlerOutcomes : LegacyExecute(h)
  \/ CancelTurn
  \/ \E h \in HandlerOutcomes : EngineExecuteAbandoned(h)

Spec == Init /\ [][Next]_vars

(***************************************************************************)
(* Properties of the orchestration loop (checked under Spec)               *)
(***************************************************************************)
Terminals == {"DONE", "BUDGET_EXCEEDED", "FATAL_ERROR"}
LastOf(h) == h[Len(h)]

\* user, assistant, user, ... from the first message on
Alternates(h) ==
  \A i \in 1..Len(h) : h[i].role = IF i % 2 = 1 THEN "user" ELSE "assistant"

\* C1: whenever a turn has reached a terminal state the roles of the
\* transcript alternate user/assistant, and in no state does the transcript
\* hold two consecutive user messages (the next turn's append included)
C1_RolesAlternate ==
  /\ (pc = "idle" /\ terminal \in Terminals) => Alternates(messages)
  /\ \A i \in 1..Len(messages) - 1 :
       ~(messages[i].role = "user" /\ messages[i + 1].role = "user")

\* C2: in every state of the tool loop the iteration counter is at most the
\* maxIterations the turn runs with
C2_IterationBounded ==
  pc \in {"loop", "model", "exec", "restream"} => iteration <= turn_max

\* C3: no handler is ever run for a tool that is not available for the
\* provider active at the time of the execution
C3_NoExcludedDispatch ==
  \A e \in executed :
    /\ e[1] \in DOMAIN BuiltinTools
    /\ e[2] # NoProvider => is_available_for(BuiltinTools[e[1]], e[2])

\* a response naming web_search ended a turn as the final answer under
\* perplexity, after the same tool had run under openai
C3_Witness ==
  /\ impl = "engine" /\ provider = "perplexity" /\ "web_search" \in DOMAIN tools
  /\ response = JsonDumps(SearchCall)
  /\ pc = "idle" /\ terminal = "DONE"
  /\ <<"web_search", "openai">> \in executed

\* C4: a turn that ended on a transport failure has removed its user
\* message, and when the first model call failed the transcript is the one
\* the turn started from
C4_RolledBack ==
  (pc = "idle" /\ terminal = "FATAL_ERROR") =>
    /\ \A i \in Len(pre) + 1..Len(messages) : messages[i] # UserMsg
    /\ model_calls = 1 => messages = pre

\* C6: a turn with maxIterations = N >= 1 whose N responses were all tool
\* calls ends as BUDGET_EXCEEDED after exactly N iterations, N model calls
\* and N tool executions, with the INFO notice as its last event, the limit
\* message as the last message and no STREAM_END
C6_AtLimit ==
  (pc = "idle" /\ terminal = "BUDGET_EXCEEDED" /\ turn_max >= 1) =>
    /\ iteration = turn_max /\ model_calls = turn_max /\ tool_execs = turn_max
    /\ messages # <<>>
    /\ LastOf(messages) = IF impl = "engine" THEN EngineLimitMsg ELSE LegacyLimitMsg
    /\ events # <<>>
    /\ LastOf(events).type = IF impl = "engine" THEN "INFO" ELSE "CONSOLE_WARNING"
    /\ \A i \in 1..Len(events) : events[i].type \notin {"STREAM_END", "CONSOLE_ASSISTANT"}
C6_ToLimit ==
  (pc = "loop" /\ turn_max >= 1 /\ tool_execs = turn_max /\ pc' # pc) =>
    /\ terminal' = "BUDGET_EXCEEDED" /\ pc' = "idle"
    /\ model_calls' = model_calls /\ tool_execs' = tool_execs
C6_BudgetExceeded == [](C6_AtLimit) /\ [][C6_ToLimit]_vars

C6_Witness ==
  /\ impl = "engine" /\ pc = "idle" /\ terminal = "BUDGET_EXCEEDED"
  /\ turn_max = 2 /\ tool_execs = 2 /\ model_calls = 2

\* the step that leaves the execution of a tool whose handler raised, in a
\* turn that is not cancelled there
HandlerRaised ==
  pc = "exec" /\ pc' # "exec" /\ last_handler' = "raise" /\ terminal' # "CANCELLED"

Responded ==
  /\ pc = "model" /\ pc' # "model" /\ terminal' # "CANCELLED"
  /\ ~(Len(events') = Len(events) + 1 /\ LastOf(events').data = <<"transport">>)

\* the text is one JSON object that has no tool key or names, by a string, a
\* tool the running implementation does not accept
NamesNoTool(txt) ==
  LET r == JsonLoads(txt) IN
  /\ r.ok /\ r.val.t = "obj"
  /\ \/ ~HasKey(r.val, "tool")
     \/ /\ Get(r.val, "tool").t = "str"
        /\ IF impl = "engine" THEN ~get_tool(tools, provider, Get(r.val, "tool").s)
           ELSE Get(r.val, "tool").s \notin DOMAIN tools

\* some object nested inside v has a tool key
RECURSIVE EmbedsTool(_)
EmbedsTool(v) ==
  \E i \in 1..Len(v.items) :
    \/ v.items[i].v.t = "obj" /\ HasKey(v.items[i].v, "tool")
    \/ EmbedsTool(v.items[i].v)

NoToolStep ==
  /\ tool_execs' = tool_execs /\ executed' = executed
  /\ \A i \in Len(events) + 1..Len(events') :
       events'[i].type \notin {"TOOL_CALL", "CONSOLE_CALLING_TOOL"}

MaxKeys == 3

InnerCall == JObj(<<KV("tool", JStr("calculator")), KV("expression", JStr("2+2"))>>)

InputKeys == {"tool", "arguments", "expression", "bogus"}
ValuesFor(k) ==
  IF k = "tool"
  THEN {JStr("calculator"), JStr("web_search"), JStr("nonexistent_tool"),
        JNum("1"), JList(<<>>)}
  ELSE IF k = "arguments" THEN {CalcArgs, JStr("2+2"), InnerCall}
  ELSE IF k = "expression" THEN {JStr("2+2"), JStr("a}b"), InnerCall}
  ELSE {JStr("} <fence>"), JNum("1"), InnerCall}

\* the keys of an object come in this order or in the reverse of it
KeyOrder == <<"tool", "arguments", "expression", "bogus">>
Reverse(q) == [i \in 1..Len(q) |-> q[Len(q) + 1 - i]]
KeySeqs ==
  UNION { LET ks == SelectSeq(KeyOrder, LAMBDA k : k \in S) IN {ks, Reverse(ks)}
          : S \in {T \in SUBSET InputKeys : Cardinality(T) <= MaxKeys} }

\* the item sequences with the keys ks, over the values of each key
RECURSIVE ItemSeqs(_)
ItemSeqs(ks) ==
  IF ks = <<>> THEN {<<>>}
  ELSE { <<KV(Head(ks), v)>> \o rest : v \in ValuesFor(Head(ks)), rest \in ItemSeqs(Tail(ks)) }

InputObjects == UNION { { JObj(its) : its \in ItemSeqs(ks) } : ks \in KeySeqs }

\* a text with one object in it
ContextNames == {"whole", "indented", "fenced", "fenced_in_prose", "in_prose", "unbalanced"}
InContext(o, c) ==
  LET d == JsonDumps(o) IN
  IF c = "whole" THEN d
  ELSE IF c = "indented" THEN <<WS>> \o JsonDumpsIndent(o) \o <<WS>>
  ELSE IF c = "fenced" THEN Fenced(d)
  ELSE IF c = "fenced_in_prose" THEN <<PROSE, WS, FENCE>> \o d \o <<FENCE, WS, PROSE>>
  ELSE IF c = "in_prose" THEN <<PROSE, WS>> \o d \o <<WS, PROSE>>
  ELSE <<FENCEJ, WS>> \o SubSeq(d, 1, Len(d) - 1) \o <<WS, FENCE>>

\* texts that hold no complete object
OddTexts ==
  { <<>>, <<WS>>, <<PROSE>>, <<LB>>, <<RB>>, <<RB, LB>>, <<FENCE>>, <<FENCE, FENCE>>,
    <<LB, Q("tool")>>, <<LB, Q("tool"), COLON>>, <<FENCEJ, LB, FENCE>>,
    <<LB, PROSE, RB>>, <<LB, Q("tool"), COLON, Q("calculator"), COMMA, RB>>,
    <<LS, LB, RB, RS>>, <<LB, LB, RB>> }

ParseInit ==
  /\ impl = "parser"
  /\ provider \in Providers /\ tools = BuiltinTools /\ tools_enabled = TRUE
  /\ max_iterations = DefaultMaxIterations
  /\ TurnInit /\ AuxInit
  /\ text \in OddTexts \cup {InContext(o, c) : o \in InputObjects, c \in ContextNames}
  /\ eng_result = PNone /\ leg_result = PNone
  /\ re_text = <<>> /\ re_result = PNone /\ phase = "input"

\* both parsers on the same text; the prompt-based client's registry is the
\* one it builds for the same provider
ParseText ==
  /\ impl = "parser" /\ phase = "input"
  /\ eng_result' = EngineParse(text, tools, provider)
  /\ leg_result' = LegacyParse(text, LegacyTools(provider))
  /\ phase' = "parsed"
  /\ UNCHANGED <<impl, regVars, turnVars, auxVars, extVars, text, re_text, re_result>>

\* the engine parses the tool-call message of the call it returned
EngineParseAgain ==
  /\ impl = "parser" /\ phase = "parsed" /\ eng_result.kind = "call"
  /\ re_text' = ToolCallText(eng_result.val)
  /\ re_result' = EngineParse(ToolCallText(eng_result.val), tools, provider)
  /\ phase' = "engine_again"
  /\ UNCHANGED <<impl, regVars, turnVars, auxVars, extVars, text, eng_result, leg_result>>

\* the prompt-based client parses the tool-call message of its call
LegacyParseAgain ==
  /\ impl = "parser" /\ phase = "parsed" /\ leg_result.kind = "call"
  /\ re_text' = ToolCallText(leg_result.val)
  /\ re_result' = LegacyParse(ToolCallText(leg_result.val), LegacyTools(provider))
  /\ phase' = "legacy_again"
  /\ UNCHANGED <<impl, regVars, turnVars, auxVars, extVars, text, eng_result, leg_result>>

ParseNext == ParseText \/ EngineParseAgain \/ LegacyParseAgain

ParseSpec == ParseInit /\ [][ParseNext]_vars

(***************************************************************************)
(* Properties of the parsers (checked under ParseSpec)                     *)
(***************************************************************************)
\* C5: neither parser raises, whatever the text
C5_ParseTotal ==
  phase # "input" =>
    /\ eng_result.kind # "raise" /\ leg_result.kind # "raise"
    /\ re_result.kind # "raise"

\* an object with a tool key naming, by a string, a tool of reg available
\* for p
NamesTool(d, reg, p) ==
  /\ d.t = "obj" /\ HasKey(d, "tool")
  /\ Get(d, "tool").t = "str" /\ get_tool(reg, p, Get(d, "tool").s)

\* C9: a text that is one object with tool and arguments keys, naming an
\* available tool, is parsed to that object unchanged, and the tool-call
\* message built from a parsed call is parsed to the same call
C9_Identity ==
  /\ phase # "input" =>
       LET r == JsonLoads(text) IN
       (r.ok /\ HasKey(r.val, "arguments")) =>
         /\ NamesTool(r.val, tools, provider) => eng_result = PCall(r.val)
         /\ NamesTool(r.val, LegacyTools(provider), NoProvider) =>
              leg_result = PCall(r.val)
  /\ phase = "engine_again" => re_result = eng_result
  /\ phase = "legacy_again" => re_result = leg_result

\* the top-level items of d, in order, whose key is a declared parameter
DeclaredItems(d, reg) ==
  LET params == reg[Get(d, "tool").s].params
      RECURSIVE pick(_)
      pick(i) == IF i > Len(d.items) THEN <<>>
                 ELSE (IF d.items[i].k \in params \ {"tool"}
                       THEN <<d.items[i]>> ELSE <<>>) \o pick(i + 1)
  IN pick(1)

\* the rule of C10 for the candidates of one parser, their outcomes and the
\* parser's result
FlatRule(cands, out, result, reg, p) ==
  \A i \in 1..Len(cands) :
    LET r == Decoded(cands[i]) IN
    (r.ok /\ NamesTool(r.val, reg, p) /\ ~HasKey(r.val, "arguments")) =>
      LET args == DeclaredItems(r.val, reg)
          first == \A j \in 1..i - 1 : out[j].kind = "none"
      IN IF args # <<>>
         THEN /\ out[i] = PCall(JObj(<<KV("tool", Get(r.val, "tool")),
                                       KV("arguments", JObj(args))>>))
              /\ first => result = out[i]
         ELSE /\ out[i] = PNone
              /\ (first /\ i = Len(cands)) => result = PNone

\* C10: a candidate object naming an available tool, without an arguments
\* key, becomes {tool, arguments} with exactly its declared top-level keys
\* when it has one, and is rejected otherwise; the first candidate that is
\* not rejected is what the parser returns
C10_Flattening ==
  phase = "parsed" =>
    LET reg == LegacyTools(provider)
        ecands == EngineCandidates(text)
        eout == [i \in 1..Len(ecands) |-> EngineTry(ecands[i], tools, provider)]
        lcands == LegacyCandidates(text)
        lout == [i \in 1..Len(lcands) |-> LegacyTry(lcands[i], reg)]
    IN /\ FlatRule(ecands, eout, eng_result, tools, provider)
       /\ FlatRule(lcands, lout, leg_result, reg, NoProvider)

\* the flattened call with an undeclared key is returned without that key
C10_Witness ==
  /\ phase = "parsed" /\ text = JsonDumps(FlatCall)
  /\ eng_result = PCall(StdCall) /\ leg_result = PCall(StdCall)

\* the result that the priority order whole response, code blocks, brace
\* scan gives, out: the outcome of each of these candidates in that order
InPriorityOrder(out) ==
  IF \E i \in 1..Len(out) : out[i].kind # "none"
  THEN out[CHOOSE i \in 1..Len(out) :
             out[i].kind # "none" /\ \A j \in 1..i - 1 : out[j].kind = "none"]
  ELSE PNone

\* C11: each parser returns the first candidate that normalizes, the
\* candidates taken in the order whole-response JSON, fenced code-block JSON,
\* objects found by brace-depth scanning (texts on which normalization
\* raises, the case of C5, left aside)
C11_PriorityOrder ==
  phase = "parsed" =>
    LET reg == LegacyTools(provider)
        cands == WholeCands(text) \o FencedCands(text, 1) \o ScanCands(text, 1)
        eout == [i \in 1..Len(cands) |-> EngineTry(cands[i], tools, provider)]
        lout == [i \in 1..Len(cands) |-> LegacyTry(cands[i], reg)]
    IN (\A i \in 1..Len(cands) : eout[i].kind # "raise" /\ lout[i].kind # "raise") =>
         /\ eng_result = InPriorityOrder(eout)
         /\ leg_result = InPriorityOrder(lout)

\* the text is prose, one JSON object that starts with {"tool", prose
ProseAround(txt) ==
  /\ Len(txt) >= 7
  /\ txt[1] = PROSE /\ txt[2] = WS /\ txt[3] = LB /\ txt[4] = Q("tool")
  /\ txt[Len(txt) - 1] = WS /\ txt[Len(txt)] = PROSE
  /\ JsonLoads(SubSeq(txt, 3, Len(txt) - 2)).ok

\* C12: from prose around one valid tool-call object that starts with
\* {"tool" and is not in a code fence, each parser returns that call,
\* whatever the nesting and the strings of the object
C12_BraceScan ==
  (phase = "parsed" /\ ProseAround(text)) =>
    LET d == JsonLoads(SubSeq(text, 3, Len(text) - 2)).val
        e == EngineNormalize(d, tools, provider)
        l == LegacyNormalize(d, LegacyTools(provider))
    IN /\ e.kind = "call" => eng_result = e
       /\ l.kind = "call" => leg_result = l

(***************************************************************************)
(* Specification of the tool registry (ToolManager of the engine) alone    *)
(***************************************************************************)
MaxLog == 3

\* web.register_tools: the three web tools, each with
\* provider_excluded=["perplexity"]
WebTools ==
  [n \in {"get_weather", "web_search", "fetch_url"} |->
     Descriptor(IF n = "get_weather" THEN {"location", "format"}
                ELSE IF n = "web_search" THEN {"query", "num_results"}
                ELSE {"url", "max_length"},
                NoList, ListOf({"perplexity"}))]

\* the native capability that makes a web tool unnecessary
CapabilityOf ==
  [n \in DOMAIN WebTools |->
     IF n = "get_weather" THEN "weather"
     ELSE IF n = "web_search" THEN "web_search" ELSE "web_fetch"]

\* a registration that leaves a name already registered as it is
register_tool_keep(reg, name, d) ==
  [n \in DOMAIN reg \cup {name} |-> IF n \in DOMAIN reg THEN reg[n] ELSE d]

\* ToolManager.register_tool: self._tools[tool.name] = tool
register_tool(reg, name, d) ==
  [n \in DOMAIN reg \cup {name} |-> IF n = name THEN d ELSE reg[n]]

\* register_all_builtin_tools(manager, provider): calculator.register_tools
\* and web.register_tools, which does not look at its provider argument
register_all_builtin_tools(reg) ==
  LET r1 == register_tool(reg, "calculator", BuiltinTools["calculator"])
      r2 == register_tool(r1, "get_weather", WebTools["get_weather"])
      r3 == register_tool(r2, "web_search", WebTools["web_search"])
  IN register_tool(r3, "fetch_url", WebTools["fetch_url"])

\* PerplexityClientPromptTools._register_web_tools: a web tool is registered
\* when provider_needs_tool says so
LegacyWebTools(p) ==
  {n \in DOMAIN WebTools : provider_needs_tool(p, CapabilityOf[n])}

\* names and descriptors a caller registers
RegNames == {"calculator", "custom"}
RegDescriptors ==
  { Descriptor({"expression"}, NoList, NoList),
    Descriptor({"expression"}, NoList, ListOf({"perplexity"})),
    Descriptor({"expression"}, ListOf({"openai"}), NoList),
    Descriptor({"expression"}, ListOf({"openai"}), ListOf({"openai"})) }

\* capabilities a configuration declares: the built-in ones, or openai
\* declared with a native web search in ppxai-config.json
DeclaredCaps ==
  { BuiltinCaps,
    [p \in Providers |-> IF p = "perplexity" THEN WebCapabilities ELSE {"web_search"}] }

LogEntry(op, name, d) == [op |-> op, name |-> name, desc |-> d]

\* ToolManager.__init__ under some configuration
RegInit ==
  /\ impl = "registry"
  /\ provider = NoProvider /\ tools = EmptyReg /\ tools_enabled = FALSE
  /\ max_iterations = DefaultMaxIterations
  /\ TurnInit /\ ParseOff
  /\ sent = <<>> /\ ran_on = "none" /\ reg_log = <<>>
  /\ caps \in DeclaredCaps
  /\ SrvOff /\ RpcOff

\* ToolManager.register_tool / register_function
RegRegister(name, d) ==
  /\ impl = "registry" /\ Len(reg_log) < MaxLog
  /\ tools' = register_tool(tools, name, d)
  /\ reg_log' = Append(reg_log, LogEntry("register", name, d))
  /\ sent' = <<>>
  /\ UNCHANGED <<impl, provider, tools_enabled, max_iterations, turnVars, parseVars,
                 ran_on, caps, extVars>>

\* register_all_builtin_tools(manager, provider)
RegRegisterBuiltin ==
  /\ impl = "registry" /\ Len(reg_log) < MaxLog
  /\ tools' = register_all_builtin_tools(tools)
  /\ reg_log' = Append(reg_log, LogEntry("builtin", "", Descriptor({}, NoList, NoList)))
  /\ sent' = <<>>
  /\ UNCHANGED <<impl, provider, tools_enabled, max_iterations, turnVars, parseVars,
                 ran_on, caps, extVars>>

\* ToolManager.clear
RegClear ==
  /\ impl = "registry" /\ Len(reg_log) < MaxLog
  /\ tools' = EmptyReg
  /\ reg_log' = Append(reg_log, LogEntry("clear", "", Descriptor({}, NoList, NoList)))
  /\ sent' = <<>>
  /\ UNCHANGED <<impl, provider, tools_enabled, max_iterations, turnVars, parseVars,
                 ran_on, caps, extVars>>

\* ToolManager.set_provider(p) for a str p
RegSetProvider(p) ==
  /\ impl = "registry"
  /\ provider' = p
  /\ sent' = <<>>
  /\ UNCHANGED <<impl, tools, tools_enabled, max_iterations, turnVars, parseVars,
                 ran_on, reg_log, caps, extVars>>

\* _chat_with_tools, "Build messages with tool prompt", for a transcript
\* that holds the user message: the message list handed to provider.chat
RegBuildMessages ==
  /\ impl = "registry" /\ sent = <<>>
  /\ sent' = WithPreamble(get_tools_prompt(tools, provider), <<UserMsg>>)
  /\ UNCHANGED <<impl, regVars, turnVars, parseVars, ran_on, reg_log, caps, extVars>>

RegNext ==
  \/ \E n \in RegNames, d \in RegDescriptors : RegRegister(n, d)
  \/ RegRegisterBuiltin
  \/ RegClear
  \/ \E p \in Providers \cup {EmptyProvider} : RegSetProvider(p)
  \/ RegBuildMessages

RegSpec == RegInit /\ [][RegNext]_vars

(***************************************************************************)
(* Properties of the registry (checked under RegSpec)                      *)
(***************************************************************************)
\* C13: for every name, get_tool returns a tool iff the name is registered
\* and the tool is among those get_available_tools returns for the current
\* provider
C13_GetIffListed ==
  \A n \in RegNames \cup DOMAIN WebTools \cup {"nonexistent_tool"} :
    get_tool(tools, provider, n) <=> n \in get_available_tools(tools, provider)

\* the entries of the log since the last clear that register name n
Max(S) == CHOOSE x \in S : \A y \in S : y <= x
LastClear(log) == Max({0} \cup {i \in 1..Len(log) : log[i].op = "clear"})
Registers(e, n) ==
  \/ e.op = "register" /\ e.name = n
  \/ e.op = "builtin" /\ n \in {"calculator"} \cup DOMAIN WebTools
Since(log, n) == {i \in LastClear(log) + 1..Len(log) : Registers(log[i], n)}
Registered(e, n) ==
  IF e.op = "register" THEN e.desc
  ELSE IF n = "calculator" THEN BuiltinTools["calculator"] ELSE WebTools[n]

\* C14: the registry holds exactly the names registered since the last
\* clear, each with the descriptor of its last registration, and nothing
\* right after a clear
C14_LastRegistrationWins ==
  /\ DOMAIN tools = {n \in RegNames \cup DOMAIN WebTools : Since(reg_log, n) # {}}
  /\ \A n \in DOMAIN tools : tools[n] = Registered(reg_log[Max(Since(reg_log, n))], n)
  /\ (reg_log # <<>> /\ reg_log[Len(reg_log)].op = "clear") => tools = EmptyReg

\* a name registered before a clear, then registered twice with different
\* descriptors
C14_Witness ==
  /\ Len(reg_log) = 3
  /\ reg_log[1].op = "clear"
  /\ reg_log[2].op = "register" /\ reg_log[3].op = "register"
  /\ reg_log[2].name = reg_log[3].name /\ reg_log[2].desc # reg_log[3].desc
  /\ tools[reg_log[3].name] = reg_log[3].desc

\* C16: once the built-in tools are registered and a provider is set, a web
\* tool is returned by get_tool and listed iff the provider's declared
\* capabilities lack the matching native capability, and the prompt-based
\* client registers it under the same condition
C16_WebToolsByCapability ==
  (provider \in Providers /\ DOMAIN WebTools \subseteq DOMAIN tools
     /\ \A n \in DOMAIN WebTools : tools[n] = WebTools[n]) =>
    \A n \in DOMAIN WebTools :
      /\ get_tool(tools, provider, n) <=> CapabilityOf[n] \notin caps[provider]
      /\ n \in get_available_tools(tools, provider) <=> CapabilityOf[n] \notin caps[provider]
      /\ n \in LegacyWebTools(provider) <=> CapabilityOf[n] \notin caps[provider]

\* the tools of the registry that the current provider may use, by the rule
\* of BaseTool.is_available_for; without a provider every tool
AvailableNames ==
  {n \in DOMAIN tools :
     \/ provider = NoProvider
     \/ IF tools[n].provider_specific.some THEN provider \in tools[n].provider_specific.of
        ELSE ~(tools[n].provider_excluded.some /\ provider \in tools[n].provider_excluded.of)}

\* how many sections of a prompt are about tool n
SectionCount(prompt, n) == Cardinality({i \in 1..Len(prompt) : prompt[i] = Section(n)})

\* the registry the prompt-based client builds for provider p
LegacyRegistry(p) ==
  [n \in {"calculator"} \cup LegacyWebTools(p) |->
     IF n = "calculator" THEN BuiltinTools[n] ELSE WebTools[n]]

\* C15: the tool prompt is empty iff no tool is available for the current
\* provider, and then the message list of the model call has no system
\* message; else the list starts with one system message whose text has one
\* section for each available tool and none for any other tool.  The prompt
\* of the prompt-based client has one section for each tool it registered
\* for its provider and none for a web tool the provider does not need
C15_PromptSections ==
  (impl = "registry" /\ sent # <<>>) =>
    LET prompt == get_tools_prompt(tools, provider)
        names == DOMAIN tools \cup RegNames \cup DOMAIN WebTools IN
    /\ prompt = <<>> <=> AvailableNames = {}
    /\ AvailableNames = {} => sent = <<UserMsg>>
    /\ AvailableNames # {} =>
         /\ sent = <<SystemMsg(prompt), UserMsg>>
         /\ \A n \in names :
              SectionCount(prompt, n) = IF n \in AvailableNames THEN 1 ELSE 0
    /\ provider \in Providers =>
         LET lprompt == LegacyToolsPrompt(LegacyRegistry(provider)) IN
         /\ lprompt # <<>>
         /\ \A n \in DOMAIN WebTools :
              SectionCount(lprompt, n) =
                IF CapabilityOf[n] \in caps[provider] THEN 0 ELSE 1

\* a message list built for perplexity with web_search registered: the
\* preamble has a section for calculator and none for web_search
C15_Witness ==
  /\ impl = "registry" /\ provider = "perplexity"
  /\ "web_search" \in DOMAIN tools /\ "calculator" \in AvailableNames
  /\ Len(sent) = 2 /\ sent[1].role = "system"
  /\ SectionCount(sent[1].body, "calculator") = 1
  /\ SectionCount(sent[1].body, "web_search") = 0

(***************************************************************************)
(* Properties of the transcript, of cancellation and of tool execution     *)
(* (checked under Spec)                                                    *)
(***************************************************************************)
\* the events that report the executions of the turn, in the order emitted
ExecutionEvents ==
  SelectSeq(events, LAMBDA ev : ev.type \in {"TOOL_RESULT", "TOOL_ERROR",
                                             "CONSOLE_TOOL_RESULT", "CONSOLE_TOOL_ERROR"})

\* does sequence part occur in sequence whole as a contiguous piece
OccursIn(part, whole) ==
  \E i \in 0..Len(whole) - Len(part) : SubSeq(whole, i + 1, i + Len(part)) = part

WithoutPreamble(ml) == IF ml # <<>> /\ ml[1].role = "system" THEN Tail(ml) ELSE ml

\* the turn is in the tool loop
InToolLoop == impl \in {"engine", "legacy"} /\ pc \in {"loop", "model", "exec", "restream"}

\* C17: while a turn runs, the transcript is the one of the turn's start,
\* the user message, and then for the k-th execution of the turn, in the
\* order of execution, its tool-call message followed by the message with
\* its result or error; and the message list of a model call in flight is
\* this transcript, after the preamble if there is one
C17_OrderedHistory ==
  InToolLoop =>
    LET x == ExecutionEvents
        own == SubSeq(messages, Len(pre) + 2, Len(messages)) IN
    /\ Len(messages) >= Len(pre) + 1
    /\ SubSeq(messages, 1, Len(pre)) = pre /\ messages[Len(pre) + 1] = UserMsg
    /\ Len(x) = tool_execs /\ Len(own) = 2 * Len(x)
    /\ \A k \in 1..Len(x) :
         /\ own[2 * k - 1].kind = "tool_call" /\ own[2 * k - 1].tool = x[k].tool
         /\ own[2 * k].kind \in {"tool_result", "tool_error"}
         /\ own[2 * k].tool = x[k].tool
         /\ OccursIn(x[k].data, own[2 * k].body)
    /\ pc \in {"model", "restream"} => WithoutPreamble(sent) = messages

\* the second model call of a turn is in flight and its message list ends
\* with the pair of the first iteration
C17_Witness ==
  /\ InToolLoop /\ pc = "model" /\ iteration = 2 /\ tool_execs = 1
  /\ Len(sent) >= 3
  /\ sent[Len(sent) - 1].kind = "tool_call"
  /\ sent[Len(sent)].kind \in {"tool_result", "tool_error"}
  /\ sent[Len(sent)].tool = sent[Len(sent) - 1].tool

\* the messages the turn has added to the transcript
OwnMessages == SubSeq(messages, Len(pre) + 1, Len(messages))

\* every tool-call message is followed by the result or error message of the
\* same tool, and every such message follows its tool-call message
Paired(h) ==
  \A i \in 1..Len(h) :
    /\ h[i].kind = "tool_call" =>
         /\ i < Len(h) /\ h[i + 1].kind \in {"tool_result", "tool_error"}
         /\ h[i + 1].tool = h[i].tool
    /\ h[i].kind \in {"tool_result", "tool_error"} =>
         /\ i > 1 /\ h[i - 1].kind = "tool_call" /\ h[i - 1].tool = h[i].tool

\* C18: after a turn is cancelled at the model call, at the tool execution
\* or at an event yield, what the turn added to the transcript is the user
\* message and complete tool-call/result pairs only: nothing is added for
\* the step in flight, and no tool-call message is without its result
C18_AllOrNothing ==
  pc = "cancelled" =>
    /\ terminal = "CANCELLED"
    /\ OwnMessages # <<>> /\ OwnMessages[1] = UserMsg
    /\ \A i \in 2..Len(OwnMessages) :
         OwnMessages[i].kind \in {"tool_call", "tool_result", "tool_error"}
    /\ Paired(OwnMessages)
    /\ Len(OwnMessages) \in {1 + 2 * tool_execs, 1 + 2 * (tool_execs - 1)}

\* a turn abandoned at the yield of its second tool result: two tools were
\* executed and the transcript holds the pair of the first one only
C18_Witness ==
  /\ pc = "cancelled" /\ impl = "engine" /\ tool_execs = 2
  /\ Len(OwnMessages) = 3
  /\ events[Len(events)].type \in {"TOOL_RESULT", "TOOL_ERROR"}

\* C19: in the tool loop, at most one tool is executed for each iteration started
\* and for each model response, also for a response that holds two valid
\* tool calls, and the executions of the turn never outnumber the
\* maxIterations the turn runs with
C19_OneCallPerIteration ==
  InToolLoop =>
    /\ tool_execs <= iteration
    /\ tool_execs <= model_calls
    /\ (response = TwoCalls /\ pc = "exec") =>
         tool_call \in {StdCall, SearchCall}
    /\ tool_execs <= turn_max

\* C20: a handler that is no coroutine function never runs on the thread of
\* the event loop: it runs on an executor and is awaited, so the loop stays
\* free for other coroutines while the handler runs
C20_OffTheLoop ==
  (pc = "loop" /\ last_handler # "none" /\ ~IsCoroutine(Get(tool_call, "tool").s)) =>
    ran_on = "executor"

(***************************************************************************)
(* Properties of the configuration, the transcript and the event stream    *)
(* (checked under Spec)                                                    *)
(***************************************************************************)
\* C22: maxIterations, 15 after construction, lies in 1..50 after any
\* sequence of configuration operations: a value outside 1..50 is rejected
C22_MaxIterationsInRange ==
  impl \in {"engine", "legacy"} => max_iterations \in MinIterations..MaxIterations

\* C23: messages are immutable once appended: at every point of a turn the
\* transcript the turn began with is a prefix of the transcript, also after
\* the rollback on a failed model call and after the budget is exhausted
C23_PrefixKept ==
  impl \in {"engine", "legacy"} =>
    /\ Len(messages) >= Len(pre)
    /\ SubSeq(messages, 1, Len(pre)) = pre

\* a second turn of the prompt-based client that executed a tool and then
\* failed: the rollback removed the tool result, a message of this turn
C23_Witness ==
  /\ impl = "legacy" /\ pre # <<>> /\ terminal = "FATAL_ERROR"
  /\ tool_execs = 1 /\ Len(messages) = Len(pre) + 2

\* every tool-call message is immediately followed by the result or error
\* message of the same tool
Answered(h) ==
  \A i \in 1..Len(h) :
    h[i].kind = "tool_call" =>
      /\ i < Len(h) /\ h[i + 1].kind \in {"tool_result", "tool_error"}
      /\ h[i + 1].tool = h[i].tool

\* C26: between turns every tool-call message of the transcript is
\* immediately followed by a user message with the result or error of that
\* call, whichever way the turn ended
C26_CallsAnswered ==
  impl \in {"engine", "legacy"} /\ pc = "idle" => Answered(messages)

\* C25: when a turn has ended as DONE, the assistant message appended last
\* and the text of the final event (STREAM_END, or the console output of the
\* prompt-based client) are the model response in which no tool call was
\* found, with and without streaming
C25_FinalIsParsedResponse ==
  impl \in {"engine", "legacy"} /\ pc = "idle" /\ terminal = "DONE" =>
    /\ LastOf(messages) = FinalMsg(response)
    /\ LastOf(events).type \in {"STREAM_END", "CONSOLE_ASSISTANT"}
    /\ LastOf(events).data = response

\* the events that end the stream of a turn: STREAM_END, ERROR and the INFO
\* of the exhausted budget
TerminalEvents == {"STREAM_END", "ERROR", "INFO"}

\* every TOOL_CALL is directly followed by the TOOL_RESULT or TOOL_ERROR of
\* the same tool (when an event follows it at all), every TOOL_RESULT and
\* TOOL_ERROR directly follows its TOOL_CALL, and no event follows a terminal
\* event
WellFormedEvents(es) ==
  \A i \in 1..Len(es) :
    /\ es[i].type = "TOOL_CALL" /\ i < Len(es) =>
         /\ es[i + 1].type \in {"TOOL_RESULT", "TOOL_ERROR"}
         /\ es[i + 1].tool = es[i].tool
    /\ es[i].type \in {"TOOL_RESULT", "TOOL_ERROR"} =>
         /\ i > 1 /\ es[i - 1].type = "TOOL_CALL" /\ es[i - 1].tool = es[i].tool
    /\ es[i].type \in TerminalEvents => i = Len(es)

\* C27: in the event stream of a turn of the engine every TOOL_CALL is
\* followed by exactly one TOOL_RESULT or TOOL_ERROR of the same tool before
\* any further TOOL_CALL or terminal event, and once the turn is over the
\* stream ends with exactly one terminal event
C27_EventStream ==
  impl = "engine" =>
    /\ WellFormedEvents(events)
    /\ pc = "idle" /\ terminal # "NONE" =>
         events # <<>> /\ LastOf(events).type \in TerminalEvents

\* the tool of the parsed call is registered and available for the active
\* provider
CallStillAvailable ==
  LET name == Get(tool_call, "tool").s IN
  name \in DOMAIN tools /\ is_available_for(tools[name], provider)

\* C28: when the provider was switched or the tools were disabled while the
\* turn was suspended between the parse and the execution, a tool that is no
\* longer registered and available is not executed: the step reports
\* TOOL_ERROR, appends the call and the error, and the loop goes on
C28_StaleCallRejected ==
  [][ (impl = "engine" /\ pc = "exec" /\ pc' # "exec" /\ terminal' # "CANCELLED"
         /\ ~CallStillAvailable) =>
        LET name == Get(tool_call, "tool").s IN
        /\ executed' = executed /\ last_handler' = "none"
        /\ pc' = "loop" /\ terminal' = terminal
        /\ Len(events') = Len(events) + 1
        /\ LastOf(events').type = "TOOL_ERROR" /\ LastOf(events').tool = name
        /\ Len(messages') = Len(messages) + 2
        /\ messages'[Len(messages) + 1] = ToolCallMsg(tool_call)
        /\ LastOf(messages').kind = "tool_error"
        /\ LastOf(messages').tool = name ]_vars

\* web_search was parsed as a call under another provider and refused at
\* its execution under perplexity
C28_Witness ==
  /\ impl = "engine" /\ pc = "loop" /\ provider = "perplexity" /\ tools_enabled
  /\ "web_search" \in DOMAIN tools /\ events # <<>> /\ messages # <<>>
  /\ LastOf(events) = Ev("TOOL_ERROR", "web_search",
                         <<"Tool not found or not available: web_search">>)
  /\ LastOf(messages).kind = "tool_error" /\ last_handler = "none"

\* C29: a registered tool whose provider_excluded lists a provider is not
\* available for that provider, whatever its provider_specific is:
\* is_available_for is false and get_tool under that provider returns None
C29_ExcludedNeverAvailable ==
  impl = "registry" =>
    \A n \in DOMAIN tools : \A p \in Providers :
      (tools[n].provider_excluded.some /\ p \in tools[n].provider_excluded.of) =>
        /\ ~is_available_for(tools[n], p)
        /\ ~get_tool(tools, p, n)

\* the text a handler returns when its own timeout expires
TimeoutText == IF impl = "engine" THEN TimeoutResult ELSE McpTimeoutResult

\* C24: a tool execution that runs into its own timeout gives a textual
\* error result that is reported and appended like any other tool result;
\* no exception leaves the turn and the loop goes on
C24_TimeoutIsResult ==
  [][ (pc = "exec" /\ pc' # "exec" /\ last_handler' = "timeout"
         /\ terminal' # "CANCELLED") =>
        LET name == Get(tool_call, "tool").s IN
        /\ pc' = "loop" /\ terminal' = terminal
        /\ events' = Append(events,
             Ev(IF impl = "engine" THEN "TOOL_RESULT" ELSE "CONSOLE_TOOL_RESULT",
                name, TimeoutText))
        /\ messages' = messages \o
             <<ToolCallMsg(tool_call), ToolResultMsg(name, TimeoutText)>> ]_vars

\* the model is called again with the timeout text as the last message
C24_Witness ==
  /\ impl \in {"engine", "legacy"} /\ pc = "model" /\ last_handler = "timeout"
  /\ iteration = 2 /\ sent # <<>>
  /\ LastOf(sent) = ToolResultMsg(LastOf(sent).tool, TimeoutText)

(***************************************************************************)
(* server/http.py: POST /chat on the one module-level EngineClient         *)
(***************************************************************************)
\* /chat requests followed
MaxRequests == 2
Requests == 1..MaxRequests

\* model responses of a request: prose, or a fenced calculator call
SrvResponses == {<<PROSE>>, Fenced(JsonDumps(StdCall))}

\* a request: where its generator is suspended, its iteration, the number of
\* session messages its last get_messages() copied, the requests that were
\* over when its turn began, and the call it parsed
NoRequest ==
  [pc |-> "none", iteration |-> 0, view |-> 0, prior |-> {}, call |-> NullVal]

\* the engine the server was started with: a provider and a model are set,
\* the tools on or off (POST /tools), max_iterations as configured
SrvInit ==
  /\ impl = "server"
  /\ provider \in Providers /\ tools_enabled \in BOOLEAN
  /\ tools = IF tools_enabled THEN RegisterAll(EmptyReg) ELSE EmptyReg
  /\ max_iterations = MinIterations
  /\ TurnInit /\ ParseOff /\ RpcOff
  /\ sent = <<>> /\ ran_on = "none" /\ reg_log = <<>> /\ caps = BuiltinCaps
  /\ reqs = [r \in Requests |-> NoRequest] /\ owner = <<>>

\* chat(request): engine.set_provider when the request names one, and the
\* StreamingResponse is returned; the generator has not run yet
HttpChat(r, p) ==
  /\ impl = "server" /\ reqs[r].pc = "none"
  /\ provider' = IF p = NoProvider THEN provider ELSE p
  /\ reqs' = [reqs EXCEPT ![r].pc = "accepted"]
  /\ UNCHANGED <<impl, tools, tools_enabled, max_iterations, turnVars, parseVars,
                 auxVars, owner, rpcVars>>

\* the top of the loop of _chat_with_tools, reached without a suspension:
\* the while test, session.get_messages() and the call of the provider, or
\* the limit message
SrvLoop(r, q, history) ==
  IF LoopTest(q.iteration, max_iterations)
  THEN [q EXCEPT !.pc = "model", !.iteration = q.iteration + 1, !.view = Len(history)]
  ELSE [q EXCEPT !.pc = "done"]

SrvLoopAppend(r, q, history) ==
  IF LoopTest(q.iteration, max_iterations) THEN history
  ELSE Append(history, EngineLimitMsg)

\* sse_event_generator is started: EngineClient.chat appends the user
\* message to the session of the engine and goes on to the first model call
SseStart(r) ==
  /\ impl = "server" /\ reqs[r].pc = "accepted"
  /\ LET q == [reqs[r] EXCEPT !.prior = {o \in Requests : reqs[o].pc = "done"}]
         h == Append(messages, UserMsg) IN
     IF tools_enabled
     THEN /\ reqs' = [reqs EXCEPT ![r] = SrvLoop(r, q, h)]
          /\ messages' = SrvLoopAppend(r, q, h)
          /\ owner' = owner \o [i \in 1..(Len(messages') - Len(messages)) |-> r]
     ELSE /\ reqs' = [reqs EXCEPT ![r] = [q EXCEPT !.pc = "simple", !.view = Len(h)]]
          /\ messages' = h
          /\ owner' = Append(owner, r)
  /\ UNCHANGED <<impl, regVars, pc, stream, iteration, turn_max, response, tool_call,
                 events, terminal, pre, turns, budget, model_calls, tool_execs,
                 executed, last_handler, parseVars, auxVars, rpcVars>>

\* the non-streaming model call of a request answers: a tool call suspends
\* the generator at the TOOL_CALL event, anything else leads to the
\* streaming re-request with the same message list
SseModelRespond(r, txt) ==
  /\ impl = "server" /\ reqs[r].pc = "model"
  /\ LET o == EngineParse(txt, tools, provider) IN
     reqs' = [reqs EXCEPT ![r].pc = IF o.kind = "call" THEN "exec" ELSE "restream",
                          ![r].call = IF o.kind = "call" THEN o.val ELSE NullVal]
  /\ UNCHANGED <<impl, regVars, turnVars, parseVars, auxVars, owner, rpcVars>>

\* a model call of a request fails: the ERROR event ends the generator
SseModelFail(r) ==
  /\ impl = "server" /\ reqs[r].pc \in {"model", "restream", "simple"}
  /\ reqs' = [reqs EXCEPT ![r].pc = "done"]
  /\ UNCHANGED <<impl, regVars, turnVars, parseVars, auxVars, owner, rpcVars>>

\* execute_tool returns or raises: the pair is appended to the session and
\* the loop goes round
SseExecute(r, h) ==
  /\ impl = "server" /\ reqs[r].pc = "exec"
  /\ LET name == Get(reqs[r].call, "tool").s
         out == IF ~get_tool(tools, provider, name)
                THEN ToolErrorMsg(name, <<"Tool not found or not available: " \o name>>)
                ELSE IF h = "raise" THEN ToolErrorMsg(name, HandlerError)
                ELSE ToolResultMsg(name, IF h = "ok" THEN OkResult ELSE TimeoutResult)
         hist == messages \o <<ToolCallMsg(reqs[r].call), out>> IN
     /\ reqs' = [reqs EXCEPT ![r] = SrvLoop(r, reqs[r], hist)]
     /\ messages' = SrvLoopAppend(r, reqs[r], hist)
     /\ owner' = owner \o [i \in 1..(Len(messages') - Len(messages)) |-> r]
  /\ UNCHANGED <<impl, regVars, pc, stream, iteration, turn_max, response, tool_call,
                 events, terminal, pre, turns, budget, model_calls, tool_execs,
                 executed, last_handler, parseVars, auxVars, rpcVars>>

\* the streaming call (the re-request, or the call of _chat_simple) ends
\* with STREAM_END: the assistant message is appended
SseFinalRespond(r, txt) ==
  /\ impl = "server" /\ reqs[r].pc \in {"restream", "simple"}
  /\ messages' = Append(messages, FinalMsg(txt))
  /\ owner' = Append(owner, r)
  /\ reqs' = [reqs EXCEPT ![r].pc = "done"]
  /\ UNCHANGED <<impl, regVars, pc, stream, iteration, turn_max, response, tool_call,
                 events, terminal, pre, turns, budget, model_calls, tool_execs,
                 executed, last_handler, parseVars, auxVars, rpcVars>>

SrvNext ==
  \/ \E r \in Requests : \E p \in Providers \cup {NoProvider} : HttpChat(r, p)
  \/ \E r \in Requests : SseStart(r)
  \/ \E r \in Requests : \E txt \in SrvResponses : SseModelRespond(r, txt)
  \/ \E r \in Requests : SseModelFail(r)
  \/ \E r \in Requests : \E h \in HandlerOutcomes : SseExecute(r, h)
  \/ \E r \in Requests : \E txt \in SrvResponses : SseFinalRespond(r, txt)

ServerSpec == SrvInit /\ [][SrvNext]_vars

\* the messages a request's model call in flight was given
InFlight(r) == reqs[r].pc \in {"model", "exec", "restream", "simple"}

\* C21: requests that overlap have independent transcripts: the message list
\* a request's model call is given holds the messages of that request and of
\* requests that were over when it began, never those of a concurrent one
C21_IndependentTranscripts ==
  impl = "server" =>
    \A r \in Requests :
      InFlight(r) =>
        \A i \in 1..reqs[r].view : owner[i] = r \/ owner[i] \in reqs[r].prior

(***************************************************************************)
(* server/jsonrpc.py: JsonRpcServer.run and handle_request                 *)
(***************************************************************************)
\* input lines followed
MaxLines == 4

\* names in JsonRpcServer.methods
RpcMethods == {"chat", "get_status"}

\* what is printed: a JSON-RPC response (code 0 for a result), or a stream
\* event, which is no response
Resp(code) == [kind |-> "response", code |-> code]
StreamEv(type) == [kind |-> "stream", code |-> 0, type |-> type]

RpcReq(members) == JsonDumps(JObj(<<KV("id", JNum("1"))>> \o members))

\* lines a client sends: empty and blank ones, one that is no JSON, JSON
\* values that are no object, and request objects
RpcLines ==
  { <<>>, <<WS>>, <<LB>>, <<LS, RS>>, <<"1">>,
    RpcReq(<<>>),
    RpcReq(<<KV("method", JStr("get_status"))>>),
    RpcReq(<<KV("method", JStr("no_such_method"))>>),
    RpcReq(<<KV("method", JList(<<>>))>>),
    RpcReq(<<KV("method", JStr("get_status")), KV("params", JList(<<>>))>>),
    RpcReq(<<KV("method", JStr("get_status")), KV("params", JNum("null"))>>),
    RpcReq(<<KV("method", JStr("get_status")),
             KV("params", JObj(<<KV("stream", JNum("1"))>>))>>),
    RpcReq(<<KV("method", JStr("chat")),
             KV("params", JObj(<<KV("message", JStr("2+2"))>>))>>),
    RpcReq(<<KV("method", JStr("chat")),
             KV("params", JObj(<<KV("message", JStr("2+2")),
                                 KV("stream", JNum("1"))>>))>>) }

\* what the method called does: it returns, or it raises (for chat with
\* stream: the engine yields an ERROR event)
RpcOutcomes == {"ok", "raise"}

\* line.strip() is empty
Blank(line) == \A i \in 1..Len(line) : line[i] = WS

\* bool(value)
Truthy(v) ==
  IF v.t = "str" THEN v.s # ""
  ELSE IF v.t = "num" THEN v.s # "null"
  ELSE Len(v.items) > 0

\* _handle_streaming_request
handle_streaming_request(method_name, m) ==
  IF method_name = "chat"
  THEN IF m = "ok"
       THEN [printed |-> <<StreamEv("thinking"), StreamEv("started"), StreamEv("done"), Resp(0)>>,
             failed |-> FALSE, raised |-> FALSE]
       ELSE [printed |-> <<StreamEv("thinking"), StreamEv("error"), StreamEv("error")>>,
             failed |-> TRUE, raised |-> TRUE]
  ELSE IF m = "ok"
       THEN [printed |-> <<Resp(0)>>, failed |-> FALSE, raised |-> FALSE]
       ELSE [printed |-> <<StreamEv("error")>>, failed |-> TRUE, raised |-> TRUE]

\* handle_request for a decoded value: request.get is called before the
\* try, so a value that is no dict raises out of handle_request; inside the
\* try every exception becomes the error -32000
handle_request(request, m) ==
  IF request.t # "obj" THEN [printed |-> <<>>, failed |-> TRUE, raised |-> TRUE]
  ELSE
    LET method_name == IF HasKey(request, "method") THEN Get(request, "method") ELSE NullVal
        params == IF HasKey(request, "params") THEN Get(request, "params") ELSE JObj(<<>>)
        error == [printed |-> <<Resp(-32000)>>, failed |-> TRUE, raised |-> FALSE]
    IN
    IF method_name.t \in {"list", "obj"} THEN error
    ELSE IF ~(method_name.t = "str" /\ method_name.s \in RpcMethods)
    THEN [printed |-> <<Resp(-32601)>>, failed |-> FALSE, raised |-> FALSE]
    ELSE IF params.t # "obj" THEN error
    ELSE IF HasKey(params, "stream") /\ Truthy(Get(params, "stream"))
    THEN LET r == handle_streaming_request(method_name.s, m) IN
         IF r.raised
         THEN [printed |-> Append(r.printed, Resp(-32000)), failed |-> TRUE, raised |-> FALSE]
         ELSE r
    ELSE IF m = "ok" THEN [printed |-> <<Resp(0)>>, failed |-> FALSE, raised |-> FALSE]
    ELSE error

\* the body of "for line in sys.stdin": only json.JSONDecodeError is caught
RunLine(line, m) ==
  IF Blank(line) THEN [printed |-> <<>>, failed |-> FALSE, raised |-> FALSE]
  ELSE LET r == JsonLoads(line) IN
    IF ~r.ok THEN [printed |-> <<Resp(-32700)>>, failed |-> FALSE, raised |-> FALSE]
    ELSE handle_request(r.val, m)

RpcInit ==
  /\ impl = "rpc"
  /\ provider = NoProvider /\ tools = EmptyReg /\ tools_enabled = FALSE
  /\ max_iterations = DefaultMaxIterations
  /\ TurnInit /\ ParseOff /\ SrvOff
  /\ sent = <<>> /\ ran_on = "none" /\ reg_log = <<>> /\ caps = BuiltinCaps
  /\ rpc_pc = "reading" /\ rpc_read = 0 /\ rpc_line = <<>> /\ rpc_out = NoOutput

\* one line is read and handled
RpcLine(line, m) ==
  /\ impl = "rpc" /\ rpc_pc = "reading" /\ rpc_read < MaxLines
  /\ rpc_read' = rpc_read + 1
  /\ rpc_line' = line
  /\ LET r == RunLine(line, m) IN
     /\ rpc_out' = [printed |-> r.printed, failed |-> r.failed]
     /\ rpc_pc' = IF r.raised THEN "stopped" ELSE "reading"
  /\ UNCHANGED <<impl, regVars, turnVars, parseVars, auxVars, srvVars>>

\* the input ends: run() returns
RpcEof ==
  /\ impl = "rpc" /\ rpc_pc = "reading"
  /\ rpc_pc' = "eof"
  /\ UNCHANGED <<impl, regVars, turnVars, parseVars, auxVars, srvVars,
                 rpc_read, rpc_line, rpc_out>>

RpcNext ==
  \/ \E line \in RpcLines : \E m \in RpcOutcomes : RpcLine(line, m)
  \/ RpcEof

RpcSpec == RpcInit /\ [][RpcNext]_vars

\* the JSON-RPC responses among what was printed for the last line
ResponsesOf(out) == SelectSeq(out, LAMBDA x : x.kind = "response")

\* C30: for every non-empty input line exactly one JSON-RPC response is
\* printed and the server goes on reading: -32700 for a line that does not
\* decode, -32601 for an unknown method, -32000 for a failure while the
\* request is handled; no line ends the loop
C30_OneResponsePerLine ==
  impl = "rpc" /\ rpc_read > 0 =>
    /\ rpc_pc # "stopped"
    /\ ~Blank(rpc_line) =>
         LET rs == ResponsesOf(rpc_out.printed)
             r == JsonLoads(rpc_line) IN
         /\ Len(rs) = 1
         /\ ~r.ok => rs[1].code = -32700
         /\ (r.ok /\ r.val.t = "obj" /\ HasKey(r.val, "method")
               /\ Get(r.val, "method").t = "str"
               /\ Get(r.val, "method").s \notin RpcMethods) => rs[1].code = -32601
         /\ rpc_out.failed => rs[1].code = -32000

====
